---- MODULE Spec2Model ----
(***************************************************************************)
(* CustomCalendarChart (transaction-frequency heatmap): the memoised       *)
(* pipeline processedData -> displayYears -> calendarData of the React     *)
(* component, its colour scale, and the input changes that re-render it.   *)
(*                                                                         *)
(* Amounts are fixed-point numbers: one currency unit is Unit model units. *)
(* Dates are triples <<year, month, day>> with month 0..11 as in JS Date,  *)
(* read in local time.  The value of the calendarData memo is kept as the  *)
(* inputs its callback last ran on (cdInputs); calendarData is the         *)
(* callback's result on them.                                              *)
(*                                                                         *)
(* The handlers of the component (cell click, PNG and SVG download, the    *)
(* expand toggle) and the values every render derives (title, legend, CSV  *)
(* rows) follow the pipeline.  Strings the program builds from numbers are *)
(* sequences of one-character strings; fixed texts are single pieces.      *)
(*                                                                         *)
(* SpecOrder computes the amounts as JS Numbers (IEEE 754 doubles, exact   *)
(* to the last digit), where the order of additions matters.               *)
(*                                                                         *)
(* Two more components share the state: the accounts page (Accounts) with  *)
(* its add, edit and delete handlers and the server calls they await       *)
(* (SpecAccounts), and the add-investment modal (AddInvestmentModal) with  *)
(* its form, validation and submit handler (SpecInvestment).               *)
(***************************************************************************)
EXTENDS Integers, Sequences, FiniteSets, TLC

\* ------------------------------------------------------------------ bounds
MaxTx == 2          \* longest transaction list handed to the chart
Unit  == 1000       \* model units per currency unit (fixed-point resolution)
MaxBusy == 7        \* most transactions put on one day (SpecBusy)
MaxOrder == 3       \* longest list whose order is permuted (SpecOrder)
MaxCalls == 2       \* server-action calls started on the accounts page
MaxOnAdd == 2       \* onAdd calls of the add-investment form

\* ------------------------------------------------------- program constants
NumDays   == 31     \* for (dayOfMonth = 1; dayOfMonth <= 31; ...)
NumMonths == 12     \* for (month = 0; month < 12; ...)

\* ------------------------------------------------------------ input domain
Ids        == {1, 2}
Amounts    == {50 * Unit, 100 * Unit}
Dates      == {<<2023, 2, 5>>, <<2024, 2, 5>>, <<2024, 1, 29>>}
Currencies == {"USD", "BTC"}          \* target (display) currencies
Todays     == {<<2024, 2, 5>>, <<2025, 2, 5>>}
ChartTypes == {"income", "expense"}

\* transactions whose currency the converter knows, and one it does not
GoodTransactions ==
    [id : Ids, date : Dates, amount : Amounts, currency : {"USD"}]
BadTransactions ==
    [id : {1}, date : {<<2024, 2, 5>>}, amount : {50 * Unit}, currency : {"XXX"}]
Transactions == GoodTransactions \cup BadTransactions

VARIABLES
    data,            \* filteredIncomes / filteredExpenses handed by the context
    currency,        \* the currency prop (target display currency)
    today,           \* the calendar date new Date() returns
    pdDeps,          \* dependency list of the processedData memo
    processedData,   \* Map dateKey -> {count, amount}
    dyDeps,          \* dependency list of the displayYears memo
    displayYears,    \* sorted array of the years of the data
    cdDeps,          \* dependency list of the calendarData memo
    cdInputs,        \* what the calendarData callback last ran on: the
                     \* processedData and displayYears of that render
    crashed,         \* a render threw: React unmounted the component
    isExpanded,      \* useChartExpansion(): the full-screen modal is shown
    pngPc,           \* where a downloadCalendarChartAsPNG call in flight waits
    effects          \* what the most recent handler call did: router pushes,
                     \* files downloaded, console.error calls

\* the accounts page (Accounts)
VARIABLES
    accounts,           \* useState<AccountInterface[]>: the list shown
    loading,            \* useState(true): the first load is under way
    isAddModalOpen,
    isEditModalOpen,
    isDeleteModalOpen,
    accountToEdit,      \* the account of the edit modal, or NoAccount (null)
    accountToDelete,    \* the account of the delete modal, or NoAccount (null)
    loadPromise,        \* getUserAccounts() of the mount effect: "pending" or
                        \* how it settled
    calls,              \* the createAccount / updateAccount / deleteAccount
                        \* calls of the handlers, in the order they started
    accountRows,               \* the accounts table on the server
    nextId,             \* the id the table gives the next created account
    refreshes           \* number of triggerBalanceRefresh() calls

chart == <<data, currency, today, pdDeps, processedData, dyDeps, displayYears,
           cdDeps, cdInputs, crashed, isExpanded, pngPc, effects>>

accountsPage == <<accounts, loading, isAddModalOpen, isEditModalOpen, isDeleteModalOpen,
                  accountToEdit, accountToDelete, loadPromise, calls, accountRows, nextId,
                  refreshes>>

\* the add-investment modal (AddInvestmentModal)
VARIABLES
    formData,           \* useState({...}): the values of the form's inputs
    modalAccounts,      \* useState<Account[]>([]): the accounts to choose from
    modalLoading,       \* useState(false): a submit is under way
    error,              \* useState<string | null>(null): the message shown
    modalLoadPromise,   \* getUserAccounts() of the open modal: "pending" or
                        \* "settled"
    onAddPromise,       \* "pending" while handleSubmit awaits onAdd
    onAddCount          \* number of onAdd calls

investmentModal == <<formData, modalAccounts, modalLoading, error, modalLoadPromise,
                     onAddPromise, onAddCount>>

vars == <<chart, accountsPage, investmentModal>>

\* what a handler of the chart leaves alone
notChart == <<accountsPage, investmentModal>>

\* ======================================================== the accounts page
\* Accounts(): the list of the user's accounts with its add, edit and delete
\* modals.  An account is its id and the data a form can change (its name).
\* The server actions (createAccount, updateAccount, deleteAccount,
\* getUserAccounts) work on the rows of the accounts table; a call's effect
\* on the table and its return to the page are one step.
AccountNames == {"Checking", "Savings"}
NoAccount == [id |-> 0, name |-> ""]

\* a server-action call of a handler: its arguments, the values the handler's
\* closure holds (accounts, accountToDelete of the render it was created in),
\* and the state and value of its promise
Call(kind, id, name, list) ==
    [kind |-> kind, id |-> id, name |-> name, accounts |-> list,
     state |-> "pending", value |-> NoAccount]

\* the rows as the array getUserAccounts() resolves to
RECURSIVE RowsAsList(_)
RowsAsList(R) ==
    IF R = {} THEN <<>>
    ELSE LET first == CHOOSE r \in R : \A s \in R : r.id <= s.id
         IN  <<first>> \o RowsAsList(R \ {first})

AccountsMounted ==
    /\ accounts = <<>>
    /\ loading = TRUE
    /\ isAddModalOpen = FALSE
    /\ isEditModalOpen = FALSE
    /\ isDeleteModalOpen = FALSE
    /\ accountToEdit = NoAccount
    /\ accountToDelete = NoAccount
    /\ loadPromise = "pending"
    /\ calls = <<>>
    /\ accountRows = {[id |-> 1, name |-> "Checking"]}
    /\ nextId = 2
    /\ refreshes = 0

pageState == <<accounts, loading, isAddModalOpen, isEditModalOpen, isDeleteModalOpen,
               accountToEdit, accountToDelete>>
server == <<accountRows, nextId>>
notAccounts == <<chart, investmentModal>>

\* loadAccounts() after "await getUserAccounts()": the array, an {error}
\* object, or a rejection
LoadAccountsSettles ==
    /\ loadPromise = "pending"
    /\ \E outcome \in {"accounts", "error", "rejects"} :
          /\ loadPromise' = outcome
          /\ accounts' = IF outcome = "accounts" THEN RowsAsList(accountRows) ELSE <<>>
    /\ loading' = FALSE
    /\ UNCHANGED <<isAddModalOpen, isEditModalOpen, isDeleteModalOpen,
                   accountToEdit, accountToDelete, calls, server, refreshes, notAccounts>>

\* the "Add Account" button
OpenAddModal ==
    /\ ~isAddModalOpen
    /\ isAddModalOpen' = TRUE
    /\ UNCHANGED <<accounts, loading, isEditModalOpen, isDeleteModalOpen, accountToEdit,
                   accountToDelete, loadPromise, calls, server, refreshes, notAccounts>>

\* onClose of the AddAccountModal
CloseAddModal ==
    /\ isAddModalOpen
    /\ isAddModalOpen' = FALSE
    /\ UNCHANGED <<accounts, loading, isEditModalOpen, isDeleteModalOpen, accountToEdit,
                   accountToDelete, loadPromise, calls, server, refreshes, notAccounts>>

\* openEditModal(account) from the table or the cards of the loaded list
openEditModal ==
    \E k \in DOMAIN accounts :
        /\ ~loading
        /\ accountToEdit' = accounts[k]
        /\ isEditModalOpen' = TRUE
        /\ UNCHANGED <<accounts, loading, isAddModalOpen, isDeleteModalOpen,
                       accountToDelete, loadPromise, calls, server, refreshes, notAccounts>>

\* onClose of the EditAccountModal
CloseEditModal ==
    /\ isEditModalOpen
    /\ isEditModalOpen' = FALSE
    /\ accountToEdit' = NoAccount
    /\ UNCHANGED <<accounts, loading, isAddModalOpen, isDeleteModalOpen,
                   accountToDelete, loadPromise, calls, server, refreshes, notAccounts>>

\* openDeleteModal(account)
openDeleteModal ==
    \E k \in DOMAIN accounts :
        /\ ~loading
        /\ accountToDelete' = accounts[k]
        /\ isDeleteModalOpen' = TRUE
        /\ UNCHANGED <<accounts, loading, isAddModalOpen, isEditModalOpen,
                       accountToEdit, loadPromise, calls, server, refreshes, notAccounts>>

\* onClose of the DeleteAccountModal
CloseDeleteModal ==
    /\ isDeleteModalOpen
    /\ isDeleteModalOpen' = FALSE
    /\ accountToDelete' = NoAccount
    /\ UNCHANGED <<accounts, loading, isAddModalOpen, isEditModalOpen,
                   accountToEdit, loadPromise, calls, server, refreshes, notAccounts>>

\* handleAddAccount(newAccount) up to "await createAccount(newAccount)"
handleAddAccount ==
    \E name \in AccountNames :
        /\ isAddModalOpen
        /\ Len(calls) < MaxCalls
        /\ calls' = Append(calls, Call("add", 0, name, accounts))
        /\ UNCHANGED <<pageState, loadPromise, server, refreshes, notAccounts>>

\* handleEditAccount(id, updatedAccount) up to "await updateAccount(...)",
\* called by the EditAccountModal for its account prop
handleEditAccount ==
    \E name \in AccountNames :
        /\ isEditModalOpen
        /\ accountToEdit # NoAccount
        /\ name # accountToEdit.name
        /\ Len(calls) < MaxCalls
        /\ calls' = Append(calls, Call("edit", accountToEdit.id, name, accounts))
        /\ UNCHANGED <<pageState, loadPromise, server, refreshes, notAccounts>>

\* handleDeleteAccount() up to "await deleteAccount(accountToDelete.id)";
\* without an accountToDelete it returns at once
handleDeleteAccount ==
    /\ isDeleteModalOpen
    /\ Len(calls) < MaxCalls
    /\ calls' = IF accountToDelete = NoAccount THEN calls
                ELSE Append(calls, Call("delete", accountToDelete.id, "", accounts))
    /\ UNCHANGED <<pageState, loadPromise, server, refreshes, notAccounts>>

Settled(i, state, value) ==
    calls' = [calls EXCEPT ![i] = [@ EXCEPT !.state = state, !.value = value]]

\* the catch block of a handler that also closed its modal and refreshed
CallFailsClosing(i) ==
    /\ Settled(i, "rejected", NoAccount)
    /\ isAddModalOpen' = FALSE
    /\ isEditModalOpen' = FALSE
    /\ isDeleteModalOpen' = FALSE
    /\ refreshes' = refreshes + 1
    /\ UNCHANGED <<accounts, loading, accountToEdit, accountToDelete, server>>

\* the catch block of a handler: console.error and alert
CallFails(i) ==
    /\ Settled(i, "rejected", NoAccount)
    /\ UNCHANGED <<pageState, server, refreshes>>

\* handleAddAccount after the await: the created account in front of the
\* accounts of the handler's closure
AddReturns ==
    \E i \in DOMAIN calls, ok \in BOOLEAN :
        /\ calls[i].kind = "add" /\ calls[i].state = "pending"
        /\ IF ok
           THEN LET account == [id |-> nextId, name |-> calls[i].name]
                IN  /\ accountRows' = accountRows \cup {account}
                    /\ nextId' = nextId + 1
                    /\ Settled(i, "fulfilled", account)
                    /\ accounts' = <<account>> \o calls[i].accounts
                    /\ isAddModalOpen' = FALSE
                    /\ refreshes' = refreshes + 1
                    /\ UNCHANGED <<loading, isEditModalOpen, isDeleteModalOpen,
                                   accountToEdit, accountToDelete>>
           ELSE CallFails(i)
        /\ UNCHANGED <<loadPromise, notAccounts>>

\* handleEditAccount after the await: the updated account in its place among
\* the accounts of the handler's closure; updateAccount fails without the row
EditReturns ==
    \E i \in DOMAIN calls, ok \in BOOLEAN :
        /\ calls[i].kind = "edit" /\ calls[i].state = "pending"
        /\ IF ok /\ \E r \in accountRows : r.id = calls[i].id
           THEN LET account == [id |-> calls[i].id, name |-> calls[i].name]
                    seen    == calls[i].accounts
                IN  /\ accountRows' = {r \in accountRows : r.id # account.id} \cup {account}
                    /\ Settled(i, "fulfilled", account)
                    /\ accounts' = [k \in DOMAIN seen |->
                                       IF seen[k].id = account.id THEN account ELSE seen[k]]
                    /\ isEditModalOpen' = FALSE
                    /\ accountToEdit' = NoAccount
                    /\ refreshes' = refreshes + 1
                    /\ UNCHANGED <<loading, isAddModalOpen, isDeleteModalOpen,
                                   accountToDelete, nextId>>
           ELSE CallFails(i)
        /\ UNCHANGED <<loadPromise, notAccounts>>

\* handleDeleteAccount after the await: the accounts of the handler's closure
\* without the deleted one; deleteAccount fails without the row
DeleteReturns ==
    \E i \in DOMAIN calls, ok \in BOOLEAN :
        /\ calls[i].kind = "delete" /\ calls[i].state = "pending"
        /\ IF ok /\ \E r \in accountRows : r.id = calls[i].id
           THEN /\ accountRows' = {r \in accountRows : r.id # calls[i].id}
                /\ Settled(i, "fulfilled", [id |-> calls[i].id, name |-> ""])
                /\ accounts' = SelectSeq(calls[i].accounts,
                                         LAMBDA a : a.id # calls[i].id)
                /\ isDeleteModalOpen' = FALSE
                /\ accountToDelete' = NoAccount
                /\ refreshes' = refreshes + 1
                /\ UNCHANGED <<loading, isAddModalOpen, isEditModalOpen,
                               accountToEdit, nextId>>
           ELSE CallFails(i)
        /\ UNCHANGED <<loadPromise, notAccounts>>

NextAccounts ==
    \/ LoadAccountsSettles
    \/ OpenAddModal
    \/ CloseAddModal
    \/ openEditModal
    \/ CloseEditModal
    \/ openDeleteModal
    \/ CloseDeleteModal
    \/ handleAddAccount
    \/ handleEditAccount
    \/ handleDeleteAccount
    \/ AddReturns
    \/ EditReturns
    \/ DeleteReturns

\* ================================================== the add-investment modal
\* AddInvestmentModal({ isOpen, onClose, onAdd }), shown open.  The values of
\* the form's inputs are strings (sequences of one-character strings), a date
\* input's value is <<>> or the <<year, month, day>> its text stands for.
\* onAdd belongs to the page that shows the modal; the model counts its
\* calls and lets each call succeed or fail.

\* ---------------------------------------------------------- strings, Numbers
DecimalDigits == <<"0", "1", "2", "3", "4", "5", "6", "7", "8", "9">>
IsDecimalDigit(ch) == \E n \in 1..10 : DecimalDigits[n] = ch
DecimalValue(ch) == (CHOOSE n \in 1..10 : DecimalDigits[n] = ch) - 1

\* a Number: NaN, or a value (the form's numbers have no fraction part)
NaN == [nan |-> TRUE, v |-> 0]
Num(n) == [nan |-> FALSE, v |-> n]

RECURSIVE DecimalOf(_, _)
DecimalOf(str, acc) ==
    IF str = <<>> THEN acc
    ELSE DecimalOf(Tail(str), 10 * acc + DecimalValue(Head(str)))

\* parseFloat(str) / parseInt(str): the longest prefix that is a numeral
\* (a sign and digits), NaN when there is none
parseFloat(str) ==
    LET neg  == str # <<>> /\ Head(str) = "-"
        body == IF neg THEN Tail(str) ELSE str
        n    == CHOOSE k \in 0..Len(body) :
                    /\ \A i \in 1..k : IsDecimalDigit(body[i])
                    /\ k = Len(body) \/ ~IsDecimalDigit(body[k + 1])
        v    == DecimalOf(SubSeq(body, 1, n), 0)
    IN  IF n = 0 THEN NaN ELSE Num(IF neg THEN 0 - v ELSE v)

\* comparisons and product of Numbers: every comparison with NaN is false
NumLeq(a, b)     == ~a.nan /\ ~b.nan /\ a.v <= b.v
NumLess(a, b)    == ~a.nan /\ ~b.nan /\ a.v < b.v
NumGreater(a, b) == ~a.nan /\ ~b.nan /\ a.v > b.v
NumTimes(a, b)   == IF a.nan \/ b.nan THEN NaN ELSE Num(a.v * b.v)

\* str.trim()
trim(str) ==
    LET Ink == {i \in DOMAIN str : str[i] # " "}
    IN  IF Ink = {} THEN <<>>
        ELSE SubSeq(str, CHOOSE i \in Ink : \A j \in Ink : i <= j,
                         CHOOSE i \in Ink : \A j \in Ink : i >= j)

\* str || fallback
OrElse(str, fallback) == IF str = <<>> THEN fallback ELSE str

\* new Date(a) <= new Date(b) for the values of two date inputs
DateNotAfter(a, b) ==
    \/ a[1] < b[1]
    \/ a[1] = b[1] /\ a[2] < b[2]
    \/ a[1] = b[1] /\ a[2] = b[2] /\ a[3] <= b[3]

\* ------------------------------------------------------------------ the form
InvestmentTypes == {"STOCKS", "FIXED_DEPOSIT", "PROVIDENT_FUNDS", "SAFE_KEEPINGS"}

\* useState({...}): the empty form; purchaseDate is the day it is made
EmptyForm(day) ==
    [name |-> <<>>, type |-> "STOCKS", symbol |-> <<>>, quantity |-> <<>>,
     purchasePrice |-> <<>>, currentPrice |-> <<>>, purchaseDate |-> day,
     accountId |-> <<>>, notes |-> <<>>, interestRate |-> <<>>,
     maturityDate |-> <<>>]

\* what the user can put into an input
FieldValues(field) ==
    CASE field = "name"          -> {<<" ">>, <<"G", "o", "l", "d">>}
      [] field = "type"          -> InvestmentTypes
      [] field = "quantity"      -> {<<"0">>, <<"2">>}
      [] field = "purchasePrice" -> {<<"0">>, <<"5", "0">>, <<"2", "0", "0">>}
      [] field = "currentPrice"  -> {<<"-", "1">>, <<"6", "0">>}
      [] field = "accountId"     -> {<<"1">>, <<"2">>}
      [] field = "interestRate"  -> {<<"-", "1">>, <<"5">>}
      [] field = "maturityDate"  -> {<<2024, 2, 5>>, <<2026, 0, 1>>}

Fields == {"name", "type", "quantity", "purchasePrice", "currentPrice",
           "accountId", "interestRate", "maturityDate"}

\* the accounts getUserAccounts() returns: one with a balance, one without
\* (balance?: number); <<>> stands for undefined
UserAccounts == <<[id |-> 1, balance |-> <<100>>], [id |-> 2, balance |-> <<>>]>>

NoError == ""       \* null

\* accounts.find(acc => acc.id === parseInt(formData.accountId)): <<>> when
\* there is none
selectedAccountOf(fd, accs) ==
    LET id    == parseFloat(fd.accountId)
        Found == {i \in DOMAIN accs : ~id.nan /\ accs[i].id = id.v}
    IN  IF Found = {} THEN <<>>
        ELSE <<accs[CHOOSE i \in Found : \A j \in Found : i <= j]>>

IsSimpleType(type) ==
    type \in {"FIXED_DEPOSIT", "PROVIDENT_FUNDS", "SAFE_KEEPINGS"}

totalInvestmentAmount(fd) ==
    IF IsSimpleType(fd.type)
    THEN parseFloat(fd.purchasePrice)
    ELSE NumTimes(parseFloat(OrElse(fd.quantity, <<"0">>)),
                  parseFloat(OrElse(fd.purchasePrice, <<"0">>)))

\* the account is found, its balance is known and the total is above it
exceedsBalance(total, selectedAccount) ==
    /\ selectedAccount # <<>>
    /\ selectedAccount[1].balance # <<>>
    /\ NumGreater(total, Num(selectedAccount[1].balance[1]))

\* a validation of the name, the quantity and the price alone
validationErrorOfAmounts(fd, accs) ==
    IF trim(fd.name) = <<>> THEN "Investment name is required"
    ELSE IF fd.quantity = <<>> /\ ~IsSimpleType(fd.type)
    THEN "Quantity must be greater than 0"
    ELSE IF fd.purchasePrice = <<>> \/ NumLeq(parseFloat(fd.purchasePrice), Num(0))
    THEN "Purchase price must be greater than 0"
    ELSE NoError

\* the validation of handleSubmit: the message of the first check that
\* fails, NoError when all pass
validationError(fd, accs) ==
    IF trim(fd.name) = <<>> THEN "Investment name is required"
    ELSE IF /\ fd.type = "FIXED_DEPOSIT"
            /\ \/ fd.purchasePrice = <<>>
               \/ NumLeq(parseFloat(fd.purchasePrice), Num(0))
    THEN "Principal amount must be greater than 0"
    ELSE IF /\ fd.type = "FIXED_DEPOSIT"
            /\ \/ fd.interestRate = <<>>
               \/ NumLess(parseFloat(fd.interestRate), Num(0))
    THEN "Interest rate must be 0 or greater"
    ELSE IF fd.type = "FIXED_DEPOSIT" /\ fd.maturityDate = <<>>
    THEN "Maturity date is required for Fixed Deposits"
    ELSE IF /\ fd.type = "FIXED_DEPOSIT"
            /\ fd.maturityDate # <<>> /\ fd.purchaseDate # <<>>
            /\ DateNotAfter(fd.maturityDate, fd.purchaseDate)
    THEN "Maturity date must be after the purchase date"
    ELSE IF /\ fd.type \in {"PROVIDENT_FUNDS", "SAFE_KEEPINGS"}
            /\ \/ fd.purchasePrice = <<>>
               \/ NumLeq(parseFloat(fd.purchasePrice), Num(0))
    THEN "Investment amount must be greater than 0"
    ELSE IF /\ ~IsSimpleType(fd.type)
            /\ \/ fd.quantity = <<>>
               \/ NumLeq(parseFloat(fd.quantity), Num(0))
    THEN "Quantity must be greater than 0"
    ELSE IF /\ ~IsSimpleType(fd.type)
            /\ \/ fd.purchasePrice = <<>>
               \/ NumLeq(parseFloat(fd.purchasePrice), Num(0))
    THEN "Purchase price must be greater than 0"
    ELSE IF /\ ~IsSimpleType(fd.type)
            /\ \/ fd.currentPrice = <<>>
               \/ NumLess(parseFloat(fd.currentPrice), Num(0))
    THEN "Current price must be 0 or greater"
    ELSE IF /\ fd.accountId = <<>>
            /\ fd.type \notin {"PROVIDENT_FUNDS", "SAFE_KEEPINGS"}
    THEN "Please select an account"
    ELSE IF /\ fd.accountId # <<>>
            /\ exceedsBalance(totalInvestmentAmount(fd), selectedAccountOf(fd, accs))
    THEN "Insufficient balance"
    ELSE NoError

\* disabled={loading || (() => {...})()} of the submit button
submitDisabled(fd, accs, busy) ==
    \/ busy
    \/ /\ fd.accountId # <<>>
       /\ fd.purchasePrice # <<>>
       /\ IsSimpleType(fd.type) \/ fd.quantity # <<>>
       /\ exceedsBalance(IF IsSimpleType(fd.type)
                         THEN parseFloat(fd.purchasePrice)
                         ELSE NumTimes(parseFloat(OrElse(fd.quantity, <<"0">>)),
                                       parseFloat(fd.purchasePrice)),
                         selectedAccountOf(fd, accs))

InvestmentModalMounted ==
    /\ formData = EmptyForm(today)
    /\ modalAccounts = <<>>
    /\ modalLoading = FALSE
    /\ error = NoError
    /\ modalLoadPromise = "pending"
    /\ onAddPromise = "none"
    /\ onAddCount = 0

notModal == <<chart, accountsPage>>

\* loadAccounts of the open modal: getUserAccounts() settles
ModalAccountsSettle ==
    /\ modalLoadPromise = "pending"
    /\ modalLoadPromise' = "settled"
    /\ \E outcome \in {"array", "error", "unexpected", "rejects"} :
          /\ modalAccounts' = IF outcome = "array" THEN UserAccounts ELSE <<>>
          /\ error' = CASE outcome = "array" -> NoError
                        [] outcome = "error" -> "result.error"
                        [] OTHER -> "Failed to load accounts"
    /\ UNCHANGED <<formData, modalLoading, onAddPromise, onAddCount, notModal>>

handleInputChange(field, value) ==
    /\ formData' = [formData EXCEPT ![field] = value]
    /\ error' = NoError
    /\ UNCHANGED <<modalAccounts, modalLoading, modalLoadPromise, onAddPromise,
                   onAddCount, notModal>>

InputChanges ==
    \E field \in Fields : \E value \in FieldValues(field) :
        handleInputChange(field, value)

\* finally { setLoading(false) }
Finally(busy) == FALSE

\* the form is submitted: handleSubmit up to its return or to await onAdd
handleSubmit ==
    /\ ~submitDisabled(formData, modalAccounts, modalLoading)
    /\ onAddCount < MaxOnAdd
    /\ LET message == validationError(formData, modalAccounts)
       IN  IF message # NoError
           THEN /\ error' = message
                /\ modalLoading' = Finally(TRUE)
                /\ UNCHANGED <<onAddPromise, onAddCount>>
           ELSE /\ error' = NoError
                /\ modalLoading' = TRUE
                /\ onAddPromise' = "pending"
                /\ onAddCount' = onAddCount + 1
    /\ UNCHANGED <<formData, modalAccounts, modalLoadPromise, notModal>>

\* await onAdd(investmentData) returns: the form is reset
OnAddResolves ==
    /\ onAddPromise = "pending"
    /\ onAddPromise' = "none"
    /\ formData' = EmptyForm(today)
    /\ modalLoading' = Finally(TRUE)
    /\ UNCHANGED <<modalAccounts, error, modalLoadPromise, onAddCount, notModal>>

\* await onAdd(investmentData) throws: the catch block
OnAddRejects ==
    /\ onAddPromise = "pending"
    /\ onAddPromise' = "none"
    /\ error' = "Failed to add investment"
    /\ modalLoading' = Finally(TRUE)
    /\ UNCHANGED <<formData, modalAccounts, modalLoadPromise, onAddCount, notModal>>

NextInvestment ==
    \/ ModalAccountsSettle
    \/ InputChanges
    \/ handleSubmit
    \/ OnAddResolves
    \/ OnAddRejects

\* ================================================ the calendar chart
\* ------------------------------------------------------------ JS Date model
IsLeapYear(y) == (y % 4 = 0 /\ y % 100 # 0) \/ y % 400 = 0

\* new Date(year, month + 1, 0).getDate()
LastDayOfMonth(y, m) ==
    IF m = 1 THEN (IF IsLeapYear(y) THEN 29 ELSE 28)
    ELSE IF m \in {3, 5, 8, 10} THEN 30
    ELSE 31

\* NewDate without the rollover of a day past the end of the month
NewDateAsGiven(y, m, d) == <<y, m, d>>

\* new Date(year, month, dayOfMonth) for dayOfMonth in 1..31: a day past the
\* end of the month rolls over into the next month (and year)
NewDate(y, m, d) ==
    IF d <= LastDayOfMonth(y, m) THEN <<y, m, d>>
    ELSE IF m = 11 THEN <<y + 1, 0, d - LastDayOfMonth(y, m)>>
    ELSE <<y, m + 1, d - LastDayOfMonth(y, m)>>

\* `${date.getFullYear()}-${date.getMonth()}-${date.getDate()}`
DateKey(y, m, d) == <<y, m, d>>

\* ------------------------------------------------------ currency conversion
\* convert(amount, from, to) -> amount.  The converter knows USD: an amount
\* already in the target currency is unchanged, USD -> BTC divides by 4000
\* (to the model's resolution); a currency without a rate fails (throws).
convertForDisplaySync(amount, from, to) ==
    IF from # "USD" THEN [ok |-> FALSE, value |-> 0]
    ELSE IF to = "USD" THEN [ok |-> TRUE, value |-> amount]
    ELSE [ok |-> TRUE, value |-> amount \div 4000]

\* --------------------------------------------------------------- aggregation
EmptyMap == [k \in {} |-> [count |-> 0, amount |-> 0]]

\* AggregateFrom that skips a transaction whose id an earlier one has
RECURSIVE AggregateFromDedup(_, _, _, _)
AggregateFromDedup(d, c, i, map) ==
    IF i > Len(d) THEN [threw |-> FALSE, map |-> map]
    ELSE IF \E j \in 1..(i - 1) : d[j].id = d[i].id
    THEN AggregateFromDedup(d, c, i + 1, map)
    ELSE
        LET t    == d[i]
            key  == DateKey(t.date[1], t.date[2], t.date[3])
            m1   == IF key \in DOMAIN map THEN map
                    ELSE map @@ (key :> [count |-> 0, amount |-> 0])
            conv == convertForDisplaySync(t.amount, t.currency, c)
        IN  IF ~conv.ok THEN [threw |-> TRUE, map |-> m1]
            ELSE AggregateFromDedup(d, c, i + 1,
                    [m1 EXCEPT ![key] = [count  |-> @.count + 1,
                                         amount |-> @.amount + conv.value]])

\* data.forEach(transaction => ...) of processedData, from index i on; an
\* exception thrown by the conversion leaves the forEach and the memo
RECURSIVE AggregateFrom(_, _, _, _)
AggregateFrom(d, c, i, map) ==
    IF i > Len(d) THEN [threw |-> FALSE, map |-> map]
    ELSE
        LET t    == d[i]
            key  == DateKey(t.date[1], t.date[2], t.date[3])
            m1   == IF key \in DOMAIN map THEN map
                    ELSE map @@ (key :> [count |-> 0, amount |-> 0])
            conv == convertForDisplaySync(t.amount, t.currency, c)
        IN  IF ~conv.ok THEN [threw |-> TRUE, map |-> m1]
            ELSE AggregateFrom(d, c, i + 1,
                    [m1 EXCEPT ![key] = [count  |-> @.count + 1,
                                         amount |-> @.amount + conv.value]])

processedDataOf(d, c) == AggregateFrom(d, c, 1, EmptyMap)

\* data.reduce((sum, item) => sum + item.amount + item.id, 0)
RECURSIVE AmountIdChecksum(_)
AmountIdChecksum(d) ==
    IF d = <<>> THEN 0
    ELSE AmountIdChecksum(SubSeq(d, 1, Len(d) - 1))
            + d[Len(d)].amount + d[Len(d)].id * Unit

\* data.reduce((sum, item) => sum + item.id, 0)
RECURSIVE IdChecksum(_)
IdChecksum(d) ==
    IF d = <<>> THEN 0
    ELSE IdChecksum(SubSeq(d, 1, Len(d) - 1)) + d[Len(d)].id

processedDataDeps(d, c) == <<Len(d), c, AmountIdChecksum(d)>>

\* ------------------------------------------------------------- displayYears
RECURSIVE SortAsc(_)
SortAsc(S) ==
    IF S = {} THEN <<>>
    ELSE LET lo == CHOOSE x \in S : \A y \in S : x <= y
         IN  <<lo>> \o SortAsc(S \ {lo})

\* Array.from(years).sort() over the Set of getFullYear() of the data (the
\* default sort compares the decimal strings, which for four-digit years is
\* the numeric order)
displayYearsOf(d) == SortAsc({d[i].date[1] : i \in 1..Len(d)})

displayYearsDeps(d) == <<Len(d), IdChecksum(d)>>

\* ------------------------------------------------------------- calendarData
Max(a, b) == IF a >= b THEN a ELSE b

\* Array.from(processedData.values()).map(d => d.amount), over the keys K
RECURSIVE ValuesOf(_, _)
ValuesOf(pd, K) ==
    IF K = {} THEN <<>>
    ELSE LET k == CHOOSE x \in K : TRUE
         IN  <<pd[k]>> \o ValuesOf(pd, K \ {k})

\* amounts.sort((a, b) => a - b)
RECURSIVE SortNumeric(_)
SortNumeric(s) ==
    IF s = <<>> THEN <<>>
    ELSE LET i == CHOOSE j \in 1..Len(s) : \A k \in 1..Len(s) : s[j] <= s[k]
         IN  <<s[i]>> \o SortNumeric(SubSeq(s, 1, i - 1) \o SubSeq(s, i + 1, Len(s)))

\* a[i] || b: an index outside the array reads undefined, which is falsy like 0
ElementOr(s, i, b) == IF (i + 1) \in DOMAIN s /\ s[i + 1] # 0 THEN s[i + 1] ELSE b

\* the positive amounts of the processedData values, ascending
sortedAmountsOf(pd) ==
    LET all == ValuesOf(pd, DOMAIN pd)
        amounts == SelectSeq([i \in 1..Len(all) |-> all[i].amount], LAMBDA a : a > 0)
    IN  SortNumeric(amounts)

\* maxAmountOf with the legend's fallback (": 0") where calendarData has ": 1"
maxAmountOfZeroWhenEmpty(pd) ==
    LET sortedAmounts == sortedAmountsOf(pd)
        percentile80Index == (Len(sortedAmounts) * 80) \div 100
    IN  IF Len(sortedAmounts) > 0
        THEN Max(ElementOr(sortedAmounts, percentile80Index,
                    ElementOr(sortedAmounts, Len(sortedAmounts) - 1, Unit)), Unit)
        ELSE 0

\* the 80th-percentile scale maximum of calendarData
maxAmountOf(pd) ==
    LET sortedAmounts == sortedAmountsOf(pd)
        percentile80Index == (Len(sortedAmounts) * 80) \div 100
    IN  IF Len(sortedAmounts) > 0
        THEN Max(ElementOr(sortedAmounts, percentile80Index,
                    ElementOr(sortedAmounts, Len(sortedAmounts) - 1, Unit)), Unit)
        ELSE Unit

\* Math.max(...counts, 1)
RECURSIVE MaxOfSet(_, _)
MaxOfSet(S, lo) ==
    IF S = {} THEN lo
    ELSE LET x == CHOOSE y \in S : TRUE IN MaxOfSet(S \ {x}, Max(x, lo))

maxCountOf(pd) == MaxOfSet({pd[k].count : k \in DOMAIN pd}, 1)

\* displayYears.forEach(year => ...) inside one cell, from index i on
RECURSIVE AcrossYears(_, _, _, _, _, _, _)
AcrossYears(pd, dy, now, dayOfMonth, month, i, acc) ==
    IF i > Len(dy) THEN acc
    ELSE
        LET year        == dy[i]
            currentDate == NewDate(year, month, dayOfMonth)
            dateKey     == DateKey(year, month, dayOfMonth)
            found       == dateKey \in DOMAIN pd
        IN  AcrossYears(pd, dy, now, dayOfMonth, month, i + 1,
                [totalCount  |-> acc.totalCount + (IF found THEN pd[dateKey].count ELSE 0),
                 totalAmount |-> acc.totalAmount + (IF found THEN pd[dateKey].amount ELSE 0),
                 hasToday    |-> acc.hasToday \/ currentDate = now])

\* Cell without the "if (dayOfMonth <= lastDayOfMonth)" guard around the
\* aggregation across years
CellUnguarded(pd, dy, now, dayOfMonth, month) ==
    LET currentYear == now[1]
        zero        == [totalCount |-> 0, totalAmount |-> 0, hasToday |-> FALSE]
        isValidDay  == dayOfMonth <= LastDayOfMonth(currentYear, month)
        acc         == AcrossYears(pd, dy, now, dayOfMonth, month, 1, zero)
    IN  [date           |-> NewDate(currentYear, month, dayOfMonth),
         count          |-> acc.totalCount,
         amount         |-> acc.totalAmount,
         isCurrentMonth |-> isValidDay,
         isToday        |-> acc.hasToday]

\* the body of the inner loop of calendarData: one DayData
Cell(pd, dy, now, dayOfMonth, month) ==
    LET currentYear == now[1]
        zero        == [totalCount |-> 0, totalAmount |-> 0, hasToday |-> FALSE]
        isValidDay  == dayOfMonth <= LastDayOfMonth(currentYear, month)
        acc         == IF isValidDay
                       THEN AcrossYears(pd, dy, now, dayOfMonth, month, 1, zero)
                       ELSE zero
    IN  [date           |-> NewDate(currentYear, month, dayOfMonth),
         count          |-> acc.totalCount,
         amount         |-> acc.totalAmount,
         isCurrentMonth |-> isValidDay,
         isToday        |-> acc.hasToday]

\* BuildGrid with the outer loop stopping one day early (dayOfMonth < 31)
BuildGridShort(pd, dy, now) ==
    [dayOfMonth \in 1..(NumDays - 1) |->
        [col \in 1..NumMonths |-> Cell(pd, dy, now, dayOfMonth, col - 1)]]

\* the two nested loops: grid[dayOfMonth][month + 1] (rows are pushed in
\* dayOfMonth order, cells in month order)
BuildGrid(pd, dy, now) ==
    [dayOfMonth \in 1..NumDays |->
        [col \in 1..NumMonths |-> Cell(pd, dy, now, dayOfMonth, col - 1)]]

calendarDataOf(pd, dy, now) ==
    [grid      |-> BuildGrid(pd, dy, now),
     maxCount  |-> maxCountOf(pd),
     maxAmount |-> maxAmountOf(pd)]

\* Array.from(processedData.values()).reduce((sum, d) => sum + d.count + d.amount, 0)
RECURSIVE CountAmountChecksum(_, _)
CountAmountChecksum(pd, K) ==
    IF K = {} THEN 0
    ELSE LET k == CHOOSE x \in K : TRUE
         IN  pd[k].count * Unit + pd[k].amount + CountAmountChecksum(pd, K \ {k})

\* [processedData.size, displayYears.length, displayYears.join(','), checksum]
calendarDataDeps(pd, dy) ==
    <<Cardinality(DOMAIN pd), Len(dy), dy, CountAmountChecksum(pd, DOMAIN pd)>>

\* the value the calendarData memo holds: its callback's result on the
\* processedData and displayYears of the render that last ran it
calendarData ==
    calendarDataOf(cdInputs.processedData, cdInputs.displayYears, today)

\* ---------------------------------------------------------- colour intensity
\* A ratio n/d (d > 0) is the pair <<n, d>>.
\* Ratios are compared in lowest terms, which keeps the products small.
RECURSIVE GCD(_, _)
GCD(a, b) == IF b = 0 THEN a ELSE GCD(b, a % b)

Reduced(p) == LET g == GCD(p[1], p[2]) IN <<p[1] \div g, p[2] \div g>>

RatioLeq(p, q) ==
    LET a == Reduced(p)
        b == Reduced(q)
    IN  a[1] * b[2] <= b[1] * a[2]
RatioLess(p, q) ==
    LET a == Reduced(p)
        b == Reduced(q)
    IN  a[1] * b[2] < b[1] * a[2]
RatioEq(p, q) ==
    LET a == Reduced(p)
        b == Reduced(q)
    IN  a[1] * b[2] = b[1] * a[2]

\* Math.min(amount / maxAmount, 1)
MinWithOne(amount, maxAmount) ==
    IF amount >= maxAmount THEN <<1, 1>> ELSE <<amount, maxAmount>>

\* Math.max(0.1, intensity)
MaxWithTenth(intensity) ==
    IF RatioLess(intensity, <<1, 10>>) THEN <<1, 10>> ELSE intensity

baseColors(type) ==
    IF type = "income" THEN [r |-> 34, g |-> 197, b |-> 94]
    ELSE [r |-> 239, g |-> 68, b |-> 68]

\* the two shapes of the returned CSS colour
Transparent == [css |-> "transparent"]
Rgba(base, opacity) ==
    [css |-> "rgba", r |-> base.r, g |-> base.g, b |-> base.b, opacity |-> opacity]

\* getColorIntensity without the Math.min(..., 1) cap
getColorIntensityUncapped(type, maxAmount, amount) ==
    IF amount = 0 THEN Transparent
    ELSE Rgba(baseColors(type), MaxWithTenth(<<amount, maxAmount>>))

\* getColorIntensity without the Math.max(0.1, ...) floor
getColorIntensityUnfloored(type, maxAmount, amount) ==
    IF amount = 0 THEN Transparent
    ELSE Rgba(baseColors(type), MinWithOne(amount, maxAmount))

\* getColorIntensity(amount) of a chart of the given type whose calendarData
\* holds maxAmount: 'transparent' or `rgba(${r}, ${g}, ${b}, ${opacity})`
getColorIntensity(type, maxAmount, amount) ==
    IF amount = 0 THEN Transparent
    ELSE LET intensity == MinWithOne(amount, maxAmount)
             opacity   == MaxWithTenth(intensity)
         IN  Rgba(baseColors(type), opacity)

\* ------------------------------------------------------ numbers as strings
DigitChars == <<"0", "1", "2", "3", "4", "5", "6", "7", "8", "9">>
Digit(n) == DigitChars[n + 1]

\* Number.prototype.toString() of a non-negative integer
RECURSIVE NumberToString(_)
NumberToString(n) ==
    IF n < 10 THEN <<Digit(n)>> ELSE NumberToString(n \div 10) \o <<Digit(n % 10)>>

\* String(n).padStart(width, '0'), the zero padding of toISOString
RECURSIVE PadStart(_, _)
PadStart(str, width) ==
    IF Len(str) >= width THEN str ELSE PadStart(<<"0">> \o str, width)

\* the number of hundredths x.toFixed(2) writes for x = n / (d * Unit) >= 0:
\* the nearest one, the larger of two equally near
Hundredths(n, d) == (200 * n + d * Unit) \div (2 * d * Unit)

\* toFixed that cuts the digits after the second decimal instead of rounding
toFixedTruncating(n, d) ==
    LET h == (100 * n) \div (d * Unit)
    IN  NumberToString(h \div 100) \o <<".", Digit((h \div 10) % 10), Digit(h % 10)>>

\* (n / d).toFixed(2) of an amount ratio in model units
toFixed(n, d) ==
    LET h == Hundredths(n, d)
    IN  NumberToString(h \div 100) \o <<".", Digit((h \div 10) % 10), Digit(h % 10)>>

\* --------------------------------------------------------------- cell click
\* date.setDate(n) for 0 <= n: day 0 is the last day of the previous month, a
\* day past the end of the month rolls over into the next one
SetDate(date, n) ==
    LET y == date[1]
        m == date[2]
    IN  IF n >= 1 THEN NewDate(y, m, n)
        ELSE IF m = 0 THEN <<y - 1, 11, 31 + n>>
        ELSE <<y, m - 1, LastDayOfMonth(y, m - 1) + n>>

\* minutes east of UTC of the browser's time zone (-getTimezoneOffset())
UtcOffsets == {-300, 0, 345}

\* the UTC calendar date of local midnight of `date`: east of UTC that instant
\* still belongs to the previous UTC day
UTCDateOf(date, utcOffset) ==
    IF utcOffset > 0 THEN SetDate(date, date[3] - 1) ELSE date

\* date.toISOString().split('T')[0]: YYYY-MM-DD of the UTC date
formatDateForURL(date, utcOffset) ==
    LET utc == UTCDateOf(date, utcOffset)
    IN  PadStart(NumberToString(utc[1]), 4) \o <<"-">>
            \o PadStart(NumberToString(utc[2] + 1), 2) \o <<"-">>
            \o PadStart(NumberToString(utc[3]), 2)

\* handleCellClick without its guard on isCurrentMonth and count
handleCellClickUnguarded(cellData, type, utcOffset) ==
    LET clickedDate == cellData.date
        startDate   == SetDate(clickedDate, clickedDate[3] - 1)
        endDate     == SetDate(clickedDate, clickedDate[3] + 1)
    IN  <<[targetPath |-> IF type = "income" THEN "/incomes" ELSE "/expenses",
           startDate  |-> formatDateForURL(startDate, utcOffset),
           endDate    |-> formatDateForURL(endDate, utcOffset)]>>

\* handleCellClick(cellData, ...) of a chart of the given type in a browser
\* utcOffset minutes east of UTC: the router.push calls it makes, each as the
\* path and the two query parameters of its URL
handleCellClick(cellData, type, utcOffset) ==
    IF ~cellData.isCurrentMonth \/ cellData.count = 0 THEN <<>>
    ELSE
        LET clickedDate == cellData.date
            startDate   == SetDate(clickedDate, clickedDate[3] - 1)
            endDate     == SetDate(clickedDate, clickedDate[3] + 1)
        IN  <<[targetPath |-> IF type = "income" THEN "/incomes" ELSE "/expenses",
               startDate  |-> formatDateForURL(startDate, utcOffset),
               endDate    |-> formatDateForURL(endDate, utcOffset)]>>

\* ----------------------------------------------------------------- CSV rows
monthNames ==
    <<"Jan", "Feb", "Mar", "Apr", "May", "Jun",
      "Jul", "Aug", "Sep", "Oct", "Nov", "Dec">>

csvHeader ==
    << <<"Day of Month">>, <<"Month">>, <<"Date">>, <<"Transaction Count">>,
       <<"Total Amount">>, <<"Average per Transaction">>, <<"Activity Level">>,
       <<"Valid Day">> >>

\* activityLevel whose 'Low' band ends at 2
activityLevelNarrowLow(count) ==
    IF count = 0 THEN <<"None">>
    ELSE IF count = 1 THEN <<"Single">>
    ELSE IF count <= 2 THEN <<"Low">>
    ELSE IF count <= 6 THEN <<"Moderate">>
    ELSE <<"High">>

activityLevel(count) ==
    IF count = 0 THEN <<"None">>
    ELSE IF count = 1 THEN <<"Single">>
    ELSE IF count <= 3 THEN <<"Low">>
    ELSE IF count <= 6 THEN <<"Moderate">>
    ELSE <<"High">>

\* averageAmount as the ratio numerator / denominator of model units
averageAmount(cellData) ==
    IF cellData.count > 0 THEN <<cellData.amount, cellData.count>> ELSE <<0, 1>>

\* the array one cell maps to (rowIndex and colIndex count from 0)
csvRow(cellData, rowIndex, colIndex) ==
    LET avg        == averageAmount(cellData)
        dateString == IF cellData.isCurrentMonth
                      THEN <<monthNames[colIndex + 1], " ">> \o NumberToString(rowIndex + 1)
                      ELSE <<"Invalid">>
    IN  << NumberToString(rowIndex + 1),
           <<monthNames[colIndex + 1]>>,
           dateString,
           IF cellData.isCurrentMonth THEN NumberToString(cellData.count) ELSE <<"0">>,
           IF cellData.isCurrentMonth THEN toFixed(cellData.amount, 1)
                                      ELSE <<"0", ".", "0", "0">>,
           IF cellData.isCurrentMonth THEN toFixed(avg[1], avg[2])
                                      ELSE <<"0", ".", "0", "0">>,
           IF cellData.isCurrentMonth THEN activityLevel(cellData.count)
                                      ELSE <<"N/A">>,
           IF cellData.isCurrentMonth THEN <<"Yes">> ELSE <<"No">> >>

\* row.map((cellData, colIndex) => [...]) of the row with index rowIndex
csvRowsOfRow(row, rowIndex) ==
    [col \in 1..Len(row) |-> csvRow(row[col], rowIndex, col - 1)]

\* grid.flatMap(...) taking the months of a day in reverse
RECURSIVE csvFlatMapReversed(_, _)
csvFlatMapReversed(grid, dayOfMonth) ==
    IF dayOfMonth > Len(grid) THEN <<>>
    ELSE LET rows == csvRowsOfRow(grid[dayOfMonth], dayOfMonth - 1)
         IN  [i \in 1..Len(rows) |-> rows[Len(rows) + 1 - i]]
                \o csvFlatMapReversed(grid, dayOfMonth + 1)

\* calendarData.grid.flatMap((row, rowIndex) => row.map(...)), from the row of
\* dayOfMonth on
RECURSIVE csvFlatMap(_, _)
csvFlatMap(grid, dayOfMonth) ==
    IF dayOfMonth > Len(grid) THEN <<>>
    ELSE csvRowsOfRow(grid[dayOfMonth], dayOfMonth - 1)
            \o csvFlatMap(grid, dayOfMonth + 1)

csvDataForControlsOf(cd) == <<csvHeader>> \o csvFlatMap(cd.grid, 1)

\* the csvDataForControls of the current render
csvDataForControls == csvDataForControlsOf(calendarData)

\* -------------------------------------------------------------------- title
\* the title prop: absent (undefined or '', both falsy) or a custom text
NoTitle == <<>>
Titles  == {NoTitle, <<"Monthly overview">>}

\* what formatTimePeriod() of the chart-data context returns: the label of the
\* active date range
TimePeriodTexts == {<<"All Time">>, <<"Jan 1, 2024 - Dec 31, 2024">>}

\* totalTransactions that counts the buckets instead of their transactions
totalTransactionsOfBuckets(pd) == Cardinality(DOMAIN pd)

\* Array.from(processedData.values()).reduce((sum, d) => sum + d.count, 0)
totalTransactionsOf(pd) ==
    LET values == ValuesOf(pd, DOMAIN pd)
        sum[i \in 0..Len(values)] ==
            IF i = 0 THEN 0 ELSE sum[i - 1] + values[i].count
    IN  sum[Len(values)]

\* chartTitle of a chart of the given type with the title prop `title`
chartTitleOf(type, title, timePeriodText, pd) ==
    LET totalTransactions == totalTransactionsOf(pd)
        kind == IF type = "income" THEN "Income" ELSE "Expense"
    IN  IF title # NoTitle THEN title
        ELSE IF totalTransactions > 0
        THEN <<kind, " Transaction Frequency - ">> \o timePeriodText
                \o <<" &bull; ">> \o NumberToString(totalTransactions)
                \o <<" transaction">>
                \o (IF totalTransactions # 1 THEN <<"s">> ELSE <<>>)
        ELSE <<kind, " Transaction Frequency - ">> \o timePeriodText

\* ------------------------------------------------------------------- legend
\* the digits of n in groups of three separated by commas
RECURSIVE Grouped(_)
Grouped(n) ==
    IF n < 1000 THEN NumberToString(n)
    ELSE Grouped(n \div 1000) \o <<",">> \o PadStart(NumberToString(n % 1000), 3)

\* the digits of a fraction of f thousandths, trailing zeros dropped
FractionDigits(f) ==
    IF f % 100 = 0 THEN <<Digit(f \div 100)>>
    ELSE IF f % 10 = 0 THEN <<Digit(f \div 100), Digit((f \div 10) % 10)>>
    ELSE <<Digit(f \div 100), Digit((f \div 10) % 10), Digit(f % 10)>>

\* amount.toLocaleString() in the en-US locale: grouped integer digits and at
\* most three fraction digits, the nearest thousandth
toLocaleString(amount) ==
    LET th == (2000 * amount + Unit) \div (2 * Unit)
    IN  Grouped(th \div 1000)
            \o (IF th % 1000 = 0 THEN <<>> ELSE <<".">> \o FractionDigits(th % 1000))

\* Math.min(...allAmounts) of a non-empty ascending array
MinOf(sortedAmounts) == sortedAmounts[1]

\* the legend of ChartContent and of the SVG document, computed from the
\* processedData of the render: minAmount, maxScaleAmount and the two texts
legendOf(pd, cur) ==
    LET sortedAmounts     == sortedAmountsOf(pd)
        minAmount         == IF Len(sortedAmounts) > 0 THEN MinOf(sortedAmounts) ELSE 0
        percentile80Index == (Len(sortedAmounts) * 80) \div 100
        maxScaleAmount    ==
            IF Len(sortedAmounts) > 0
            THEN Max(ElementOr(sortedAmounts, percentile80Index,
                        ElementOr(sortedAmounts, Len(sortedAmounts) - 1, Unit)), Unit)
            ELSE 0
    IN  [minAmount      |-> minAmount,
         maxScaleAmount |-> maxScaleAmount,
         less |-> <<"Less [", cur, " ">> \o toLocaleString(minAmount) \o <<"]">>,
         more |-> <<"More [", cur, " ">> \o toLocaleString(maxScaleAmount) \o <<"]">>]

\* ------------------------------------------------------------- SVG document
\* getBoundingClientRect() of the chart element: width and height in pixels
ChartRects == {[width |-> 1200, height |-> 800], [width |-> 2000, height |-> 1200]}

Hex(value) == [css |-> "hex", value |-> value]

\* svgCellOf that draws an invalid cell like a valid one
svgCellOfAllValid(type, maxAmount, cellData, x, y, cellWidth, cellHeight) ==
    LET backgroundColor == getColorIntensity(type, maxAmount, cellData.amount)
    IN  [x           |-> x,
         y           |-> y,
         width       |-> cellWidth - 3,
         height      |-> cellHeight - 3,
         fill        |-> IF backgroundColor = Transparent
                         THEN Hex("#f9fafb") ELSE backgroundColor,
         stroke      |-> IF cellData.isToday THEN "#3b82f6" ELSE "#e5e7eb",
         strokeWidth |-> IF cellData.isToday THEN 2 ELSE 1,
         opacity     |-> "",
         countText   |-> IF cellData.count > 0
                         THEN NumberToString(cellData.count) ELSE <<>>]

\* the <rect> of one cell (and the text of its count, '' when there is none)
svgCellOf(type, maxAmount, cellData, x, y, cellWidth, cellHeight) ==
    LET backgroundColor == getColorIntensity(type, maxAmount, cellData.amount)
    IN  [x           |-> x,
         y           |-> y,
         width       |-> cellWidth - 3,
         height      |-> cellHeight - 3,
         fill        |-> IF cellData.isCurrentMonth
                         THEN (IF backgroundColor = Transparent
                               THEN Hex("#f9fafb") ELSE backgroundColor)
                         ELSE Hex("#f9fafb"),
         stroke      |-> IF cellData.isCurrentMonth /\ cellData.isToday
                         THEN "#3b82f6" ELSE "#e5e7eb",
         strokeWidth |-> IF cellData.isCurrentMonth /\ cellData.isToday THEN 2 ELSE 1,
         opacity     |-> IF cellData.isCurrentMonth THEN "" ELSE "0.3",
         countText   |-> IF cellData.count > 0 /\ cellData.isCurrentMonth
                         THEN NumberToString(cellData.count) ELSE <<>>]

\* the document downloadCalendarChartAsSVG serializes, from the values of the
\* render the handler belongs to
svgDocumentOf(type, chartTitle, cd, pd, cur, rect) ==
    LET width         == Max(2500, (rect.width * 3) \div 2)
        height        == Max(1000, rect.height)
        gridStartX    == 40
        gridStartY    == 100
        dayLabelWidth == 60
        gridWidth     == (width - gridStartX * 2) - dayLabelWidth
        cellWidth     == gridWidth \div 12
        cellHeight    == 25
        legend        == legendOf(pd, cur)
    IN  [width        |-> width,
         height       |-> height,
         title        |-> chartTitle,
         monthHeaders |-> monthNames,
         dayLabels    |-> [rowIndex \in 1..Len(cd.grid) |-> NumberToString(rowIndex)],
         cells        |-> [rowIndex \in 1..Len(cd.grid) |->
                             [colIndex \in 1..Len(cd.grid[rowIndex]) |->
                                 svgCellOf(type, cd.maxAmount, cd.grid[rowIndex][colIndex],
                                     gridStartX + dayLabelWidth + (colIndex - 1) * cellWidth,
                                     gridStartY + (rowIndex - 1) * cellHeight,
                                     cellWidth, cellHeight)]],
         legendY      |-> gridStartY + Len(cd.grid) * cellHeight + 60,
         less         |-> legend.less,
         more         |-> legend.more,
         download     |-> <<type, "-transaction-frequency.svg">>]

\* --------------------------------------------------------------- the render
\* One render of CustomCalendarChart with props/context (d, c): each useMemo
\* recomputes only when its dependency list differs from the stored one.  A
\* throw inside the processedData callback aborts the render: nothing is
\* committed and the component is unmounted.
Render(d, c) ==
    LET newPdDeps == processedDataDeps(d, c)
        rerunPd   == newPdDeps # pdDeps
        agg       == processedDataOf(d, c)
        newDyDeps == displayYearsDeps(d)
        pd        == IF rerunPd THEN agg.map ELSE processedData
        dy        == IF newDyDeps # dyDeps THEN displayYearsOf(d) ELSE displayYears
        newCdDeps == calendarDataDeps(pd, dy)
    IN  IF rerunPd /\ agg.threw
        THEN /\ crashed' = TRUE
             /\ UNCHANGED <<pdDeps, processedData, dyDeps, displayYears,
                            cdDeps, cdInputs>>
        ELSE /\ crashed' = FALSE
             /\ pdDeps' = newPdDeps
             /\ processedData' = pd
             /\ dyDeps' = newDyDeps
             /\ displayYears' = dy
             /\ cdDeps' = newCdDeps
             /\ cdInputs' = IF newCdDeps # cdDeps
                            THEN [processedData |-> pd, displayYears |-> dy]
                            ELSE cdInputs

\* the record of a handler call that did nothing
NoEffects ==
    [handler   |-> "none",     \* "click", "png", "svg": the handler called
     row       |-> 0,          \* the clicked cell: dayOfMonth, month + 1
     col       |-> 0,
     type      |-> "",         \* the type prop of the clicked chart
     utcOffset |-> 0,          \* the browser's time zone at the click
     pushed    |-> <<>>,       \* router.push calls
     downloads |-> <<>>,       \* link.click() downloads: "png", "svg"
     logged    |-> 0,          \* console.error calls
     failure   |-> "",         \* how the PNG export failed, if it did
     rect      |-> [width |-> 0, height |-> 0]]   \* chart size at an SVG export

\* effects after an event that is not a handler of the chart: the record of an
\* export still in flight stays
EffectsAfterEvent == IF pngPc = "idle" THEN NoEffects ELSE effects

\* the first render: every memo runs
Init ==
    /\ data = <<>>
    /\ currency = "USD"
    /\ today \in Todays
    /\ pdDeps = processedDataDeps(data, currency)
    /\ processedData = processedDataOf(data, currency).map
    /\ dyDeps = displayYearsDeps(data)
    /\ displayYears = displayYearsOf(data)
    /\ cdDeps = calendarDataDeps(processedData, displayYears)
    /\ cdInputs = [processedData |-> processedData, displayYears |-> displayYears]
    /\ crashed = FALSE
    /\ isExpanded = FALSE
    /\ pngPc = "idle"
    /\ effects = NoEffects
    /\ AccountsMounted
    /\ InvestmentModalMounted

\* ------------------------------------------------- input changes + re-render
ReplaceAt(d, i, t) == [d EXCEPT ![i] = t]
RemoveAt(d, i) == SubSeq(d, 1, i - 1) \o SubSeq(d, i + 1, Len(d))

Change(d, c) ==
    /\ ~crashed
    /\ data' = d
    /\ currency' = c
    /\ UNCHANGED <<today, isExpanded, pngPc, notChart>>
    /\ effects' = EffectsAfterEvent
    /\ Render(d, c)

AddTransaction ==
    \E t \in Transactions :
        /\ Len(data) < MaxTx
        /\ Change(Append(data, t), currency)

RemoveTransaction ==
    \E i \in 1..Len(data) : Change(RemoveAt(data, i), currency)

EditDate ==
    \E i \in 1..Len(data), nd \in Dates :
        /\ nd # data[i].date
        /\ Change(ReplaceAt(data, i, [data[i] EXCEPT !.date = nd]), currency)

EditAmount ==
    \E i \in 1..Len(data), na \in Amounts :
        /\ na # data[i].amount
        /\ Change(ReplaceAt(data, i, [data[i] EXCEPT !.amount = na]), currency)

EditId ==
    \E i \in 1..Len(data), ni \in Ids :
        /\ ni # data[i].id
        /\ Change(ReplaceAt(data, i, [data[i] EXCEPT !.id = ni]), currency)

SetCurrency ==
    \E c \in Currencies :
        /\ c # currency
        /\ Change(data, c)

Next ==
    \/ AddTransaction
    \/ RemoveTransaction
    \/ EditDate
    \/ EditAmount
    \/ EditId
    \/ SetCurrency

Spec == Init /\ [][Next]_vars

\* ------------------------------------------------ values of the current render
\* chartTitle, as the chart of the given type and props renders it
chartTitle(type, title, timePeriodText) ==
    chartTitleOf(type, title, timePeriodText, processedData)

\* the legend ChartContent shows
legend == legendOf(processedData, currency)

\* the document downloadCalendarChartAsSVG of the current render serializes
svgDocument(type, title, timePeriodText, rect) ==
    svgDocumentOf(type, chartTitle(type, title, timePeriodText),
                  calendarData, processedData, currency, rect)

\* ----------------------------------------------------- the chart's handlers
memos == <<pdDeps, processedData, dyDeps, displayYears, cdDeps, cdInputs>>

\* chartRef.current were the ref on the chart's always-mounted container
chartRefOnCard == ~crashed

\* chartRef.current is the <div ref={chartRef}> inside {isExpanded && (...)}
\* of a mounted chart, else null
chartRefCurrent == isExpanded /\ ~crashed

\* toggleExpanded: the re-render finds every dependency list unchanged
ToggleExpanded ==
    /\ ~crashed
    /\ isExpanded' = ~isExpanded
    /\ effects' = EffectsAfterEvent
    /\ UNCHANGED <<data, currency, today, memos, crashed, pngPc, notChart>>

\* the cells clicked, as <<dayOfMonth, month + 1>>: the first and last days of
\* a year and of months, 29 and 30 February, 31 April, and two ordinary days
ClickPositions ==
    {<<1, 1>>, <<31, 12>>, <<1, 3>>, <<29, 2>>, <<30, 2>>, <<31, 4>>, <<5, 3>>, <<15, 6>>}

\* onClick={() => handleCellClick(cellData, colIndex, rowIndex + 1)} of a cell
\* of a chart of either type, in a browser of some time zone
ClickCell ==
    \E pos \in ClickPositions, type \in ChartTypes, utcOffset \in UtcOffsets :
        LET row == pos[1]
            col == pos[2]
        IN
        /\ ~crashed
        /\ effects' = [NoEffects EXCEPT
                          !.handler = "click", !.row = row, !.col = col,
                          !.type = type, !.utcOffset = utcOffset,
                          !.pushed = handleCellClick(calendarData.grid[row][col],
                                                     type, utcOffset)]
        /\ UNCHANGED <<data, currency, today, memos, crashed, isExpanded, pngPc, notChart>>

\* downloadCalendarChartAsSVG() on top of the effects e: nothing without a
\* chart element, else one download of the document for the element's rect
downloadCalendarChartAsSVG(attached, rect, e) ==
    IF ~attached THEN e
    ELSE [e EXCEPT !.downloads = Append(@, "svg"), !.rect = rect]

\* customDownloadSVG
DownloadSVG ==
    \E rect \in ChartRects :
        /\ ~crashed
        /\ pngPc = "idle"
        /\ effects' = downloadCalendarChartAsSVG(chartRefCurrent, rect,
                            [NoEffects EXCEPT !.handler = "svg"])
        /\ UNCHANGED <<data, currency, today, memos, crashed, isExpanded, pngPc, notChart>>

\* the catch block of downloadCalendarChartAsPNG: console.error, then the SVG
\* fallback on whatever chartRef.current is by now
CatchPNG(failure) ==
    \E rect \in ChartRects :
        /\ effects' = downloadCalendarChartAsSVG(chartRefCurrent, rect,
                            [effects EXCEPT !.logged = @ + 1, !.failure = failure])
        /\ pngPc' = "idle"

\* customDownloadPNG: returns at once without a chart element, else starts
\* the dynamic import
DownloadPNG ==
    /\ ~crashed
    /\ pngPc = "idle"
    /\ effects' = [NoEffects EXCEPT !.handler = "png"]
    /\ pngPc' = IF chartRefCurrent THEN "import" ELSE "idle"
    /\ UNCHANGED <<data, currency, today, memos, crashed, isExpanded, notChart>>

\* await import('html2canvas') settles: rejected, or resolved and then
\* html2canvas(chartRef.current, {... chartRef.current.scrollWidth ...}) is
\* called, which throws a TypeError when the element is gone by now
ImportSettles ==
    /\ pngPc = "import"
    /\ \E loaded \in BOOLEAN :
          IF ~loaded THEN CatchPNG("import")
          ELSE IF ~chartRefCurrent THEN CatchPNG("detached")
          ELSE pngPc' = "html2canvas" /\ UNCHANGED effects
    /\ UNCHANGED <<data, currency, today, memos, crashed, isExpanded, notChart>>

\* await html2canvas(...) settles: rejected, or resolved with a canvas whose
\* toBlob call throws (a tainted canvas) or returns
RasterizeSettles ==
    /\ pngPc = "html2canvas"
    /\ \E outcome \in {"rejects", "toBlobThrows", "canvas"} :
          IF outcome = "canvas" THEN pngPc' = "toBlob" /\ UNCHANGED effects
          ELSE CatchPNG(outcome)
    /\ UNCHANGED <<data, currency, today, memos, crashed, isExpanded, notChart>>

\* the toBlob callback runs: with a blob the PNG is downloaded, with null
\* ("if (blob)" fails) nothing is done
BlobCallback ==
    /\ pngPc = "toBlob"
    /\ \E blob \in {"bitmap", "null"} :
          effects' = IF blob = "bitmap"
                     THEN [effects EXCEPT !.downloads = Append(@, "png")]
                     ELSE [effects EXCEPT !.failure = "noBitmap"]
    /\ pngPc' = "idle"
    /\ UNCHANGED <<data, currency, today, memos, crashed, isExpanded, notChart>>

\* --------------------------------------------- the chart and its cell clicks
\* transactions on the first and last days of months and of the year
EdgeDates ==
    {<<2024, 0, 1>>, <<2024, 11, 31>>, <<2024, 2, 1>>, <<2024, 1, 29>>, <<2024, 2, 5>>}
EdgeTransactions ==
    [id : {1}, date : EdgeDates, amount : {50 * Unit}, currency : {"USD"}]

AddEdgeTransaction ==
    \E t \in EdgeTransactions :
        /\ Len(data) < MaxTx
        /\ Change(Append(data, t), currency)

NextClick ==
    \/ AddEdgeTransaction
    \/ RemoveTransaction
    \/ ClickCell

SpecClick == Init /\ [][NextClick]_vars

\* ------------------------------------------- the chart with many a day's work
\* up to MaxBusy transactions of one day, shown in either currency
BusyTransactions ==
    [id : {1}, date : {<<2024, 2, 5>>}, amount : Amounts, currency : {"USD"}]

AddBusyTransaction ==
    \E t \in BusyTransactions :
        /\ Len(data) < MaxBusy
        /\ Change(Append(data, t), currency)

NextBusy ==
    \/ AddBusyTransaction
    \/ SetCurrency

SpecBusy == Init /\ [][NextBusy]_vars

\* ------------------------------------------------- the chart and its exports
NextExport ==
    \/ AddTransaction
    \/ EditDate
    \/ EditAmount
    \/ ToggleExpanded
    \/ DownloadSVG
    \/ DownloadPNG
    \/ ImportSettles
    \/ RasterizeSettles
    \/ BlobCallback

SpecExport == Init /\ [][NextExport]_vars

\* ------------------------------------------------- amounts as JS Numbers
\* "amount: number" is an IEEE 754 double: a positive one is the 53 binary
\* digits m (most significant first, the first one 1) times 2^e; zero has no
\* digits.  The amounts of the chart are far from the subnormal and the
\* infinite range.
Precision == 53

DoubleZero == [m |-> <<>>, e |-> 0]

\* a natural number as binary digits, most significant first
RECURSIVE BitsOf(_)
BitsOf(n) == IF n = 0 THEN <<>> ELSE Append(BitsOf(n \div 2), n % 2)

Zeros(k) == [i \in 1..k |-> 0]

StripLeadingZeros(bits) ==
    IF \A i \in DOMAIN bits : bits[i] = 0 THEN <<>>
    ELSE LET first == CHOOSE i \in DOMAIN bits :
                          bits[i] = 1 /\ \A j \in 1..(i - 1) : bits[j] = 0
         IN  SubSeq(bits, first, Len(bits))

\* the carry into digit i of the sum of x and y (of one length n): some
\* lower place makes a carry and every place between passes it on
CarryInto(x, y, i) ==
    \E j \in (i + 1)..Len(x) :
        /\ x[j] + y[j] = 2
        /\ \A k \in (i + 1)..(j - 1) : x[k] + y[k] = 1

\* the exact sum of two binary numbers
AddBits(x, y) ==
    LET n    == Max(Len(x), Len(y))
        a    == Zeros(n - Len(x)) \o x
        b    == Zeros(n - Len(y)) \o y
        c(i) == IF CarryInto(a, b, i) THEN 1 ELSE 0
    IN  (IF c(0) = 1 THEN <<1>> ELSE <<>>)
            \o [i \in 1..n |-> (a[i] + b[i] + c(i)) % 2]

\* 2^k modulo m
RECURSIVE PowerOfTwoMod(_, _)
PowerOfTwoMod(k, m) ==
    IF k = 0 THEN 1 % m
    ELSE LET h == PowerOfTwoMod(k \div 2, m)
         IN  (((h * h) % m) * (IF k % 2 = 1 THEN 2 ELSE 1)) % m

\* the binary digit of weight 2^(-k) of the decimal amount n / Unit
FractionDigit(n, k) ==
    IF ((n % (2 * Unit)) * PowerOfTwoMod(k, 2 * Unit)) % (2 * Unit) >= Unit
    THEN 1 ELSE 0

\* round to nearest, ties to even: the binary number bits (first digit 1;
\* inexact says that digits below the last one were cut off already) as
\* Precision digits m and the number of digits dropped: bits ~ m * 2^shift
RoundToPrecision(bits, inexact) ==
    LET dropped == Len(bits) - Precision
    IN  IF dropped <= 0
        THEN [m |-> bits \o Zeros(-dropped), shift |-> dropped]
        ELSE LET kept    == SubSeq(bits, 1, Precision)
                 half    == bits[Precision + 1] = 1
                 above   == inexact \/ \E i \in (Precision + 2)..Len(bits) : bits[i] = 1
                 roundUp == half /\ (above \/ kept[Precision] = 1)
                 next    == IF roundUp THEN AddBits(kept, <<1>>) ELSE kept
             IN  IF Len(next) > Precision
                 THEN [m |-> SubSeq(next, 1, Precision), shift |-> dropped + 1]
                 ELSE [m |-> next, shift |-> dropped]

\* the Number a transaction holds for the decimal amount n / Unit (n >= 1):
\* the double nearest to it, from the first 64 binary places of the quotient
NumberOf(n) ==
    IF n = 0 THEN DoubleZero
    ELSE LET digits  == BitsOf(n \div Unit) \o [k \in 1..64 |-> FractionDigit(n, k)]
             inexact == ((n % Unit) * PowerOfTwoMod(64, Unit)) % Unit # 0
             rounded == RoundToPrecision(StripLeadingZeros(digits), inexact)
         IN  [m |-> rounded.m, e |-> rounded.shift - 64]

\* a + b of two Numbers that are not negative
NumberAdd(a, b) ==
    IF a = DoubleZero THEN b
    ELSE IF b = DoubleZero THEN a
    ELSE LET e       == IF a.e <= b.e THEN a.e ELSE b.e
             exact   == AddBits(a.m \o Zeros(a.e - e), b.m \o Zeros(b.e - e))
             rounded == RoundToPrecision(exact, FALSE)
         IN  [m |-> rounded.m, e |-> e + rounded.shift]

EmptyNumberMap == [k \in {} |-> [count |-> 0, amount |-> DoubleZero]]

\* the forEach of processedData with the amounts as the Numbers they are
RECURSIVE AggregateNumbersFrom(_, _, _, _)
AggregateNumbersFrom(d, c, i, map) ==
    IF i > Len(d) THEN [threw |-> FALSE, map |-> map]
    ELSE
        LET t    == d[i]
            key  == DateKey(t.date[1], t.date[2], t.date[3])
            m1   == IF key \in DOMAIN map THEN map
                    ELSE map @@ (key :> [count |-> 0, amount |-> DoubleZero])
            conv == convertForDisplaySync(t.amount, t.currency, c)
        IN  IF ~conv.ok THEN [threw |-> TRUE, map |-> m1]
            ELSE AggregateNumbersFrom(d, c, i + 1,
                    [m1 EXCEPT ![key] = [count  |-> @.count + 1,
                                         amount |-> NumberAdd(@.amount, NumberOf(conv.value))]])

\* displayYears.forEach(year => ...) of one valid cell, from index i on, with
\* the amounts as Numbers
RECURSIVE AcrossYearsNumbers(_, _, _, _, _, _)
AcrossYearsNumbers(pd, dy, dayOfMonth, month, i, acc) ==
    IF i > Len(dy) THEN acc
    ELSE
        LET dateKey == DateKey(dy[i], month, dayOfMonth)
            found   == dateKey \in DOMAIN pd
        IN  AcrossYearsNumbers(pd, dy, dayOfMonth, month, i + 1,
                [totalCount  |-> acc.totalCount + (IF found THEN pd[dateKey].count ELSE 0),
                 totalAmount |-> IF found
                                 THEN NumberAdd(acc.totalAmount, pd[dateKey].amount)
                                 ELSE acc.totalAmount])

\* ------------------------------------------- the chart of small-change days
\* up to MaxOrder transactions of tenths of a currency unit on one calendar
\* day of three years
FractionalAmounts == {Unit \div 10, (2 * Unit) \div 10, (3 * Unit) \div 10, Unit \div 2}
OrderDates == {<<2022, 2, 5>>, <<2023, 2, 5>>, <<2024, 2, 5>>}
FractionalTransactions ==
    [id : {1}, date : OrderDates, amount : FractionalAmounts, currency : {"USD"}]

AddFractionalTransaction ==
    \E t \in FractionalTransactions :
        /\ Len(data) < MaxOrder
        /\ Change(Append(data, t), currency)

NextOrder ==
    \/ AddFractionalTransaction
    \/ RemoveTransaction

SpecOrder == Init /\ [][NextOrder]_vars

\* ------------------------------------------------------ the accounts page
SpecAccounts == Init /\ [][NextAccounts]_vars

\* the add-investment modal on its own, opened on 5 March 2024
InitInvestment == Init /\ today = <<2024, 2, 5>>
SpecInvestment == InitInvestment /\ [][NextInvestment]_vars

\* ===================================================================== claims
\* helpers of the statements below
RowIndices == 1..31
ColIndices == 1..12

ConversionFails(t, c) == ~convertForDisplaySync(t.amount, t.currency, c).ok

YearsOfData == {data[i].date[1] : i \in 1..Len(data)}

RECURSIVE SumOverSet(_, _, _)
SumOverSet(f(_), S, acc) ==
    IF S = {} THEN acc
    ELSE LET x == CHOOSE y \in S : TRUE IN SumOverSet(f, S \ {x}, acc + f(x))

CellPositions == RowIndices \X ColIndices

\* the sum of count over the cells of g, row by row
GridCountSum(g) ==
    LET rowSum(d) == LET f(c) == g[d][c].count IN SumOverSet(f, DOMAIN g[d], 0)
    IN  SumOverSet(rowSum, DOMAIN g, 0)

\* the amounts of the cells of g, as a sequence, row by row
RECURSIVE RowAmounts(_, _)
RowAmounts(row, c) ==
    IF c > Len(row) THEN <<>> ELSE <<row[c].amount>> \o RowAmounts(row, c + 1)

RECURSIVE CellAmountsFrom(_, _)
CellAmountsFrom(g, d) ==
    IF d > Len(g) THEN <<>> ELSE RowAmounts(g[d], 1) \o CellAmountsFrom(g, d + 1)

CellAmountSet(g) == {g[p[1]][p[2]].amount : p \in CellPositions}

\* C1: the counts of the 372 grid cells add up to the number of input
\* transactions (whenever a grid is displayed).
C1_GridCountIsInputCount ==
    ~crashed => GridCountSum(calendarData.grid) = Len(data)

\* C2: after any sequence of input changes the bucket map, the year set, the
\* grid and the scale equal those computed from scratch on the current
\* transaction set and currency.
C2_DerivedStateIsFresh ==
    ~crashed =>
        LET pd == processedDataOf(data, currency).map
            dy == displayYearsOf(data)
        IN  /\ processedData = pd
            /\ displayYears = dy
            /\ calendarData = calendarDataOf(pd, dy, today)

\* C3: cell (d, m) is invalid exactly when d > lastDayOfMonth(referenceYear, m),
\* and every invalid cell has count 0 and amount 0, whatever the transactions.
C3_InvalidCellsAreEmpty ==
    LET g == calendarData.grid IN
    \A d \in RowIndices, c \in ColIndices :
        LET cell == g[d][c]
        IN  /\ (~cell.isCurrentMonth) <=> (d > LastDayOfMonth(today[1], c - 1))
            /\ (~cell.isCurrentMonth) => (cell.count = 0 /\ cell.amount = 0)

\* C3 witness: a transaction of 29 February 2024 went through the memos and
\* the grid of the non-leap reference year 2025 shows Feb 29 invalid and empty.
C3_Witness ==
    /\ today[1] = 2025
    /\ <<2024, 1, 29>> \in DOMAIN cdInputs.processedData
    /\ 2024 \in {cdInputs.displayYears[i] : i \in 1..Len(cdInputs.displayYears)}
    /\ ~calendarData.grid[29][2].isCurrentMonth
    /\ calendarData.grid[29][2].count = 0

\* C4: every valid cell's count and amount are the sums, over the years
\* present in the transaction set, of the buckets (year, m, d); 100 on
\* 2023-03-05 and 50 on 2024-03-05 give cell (5, Mar) count 2, amount 150.
C4_CellIsSumOverYearsOfData ==
    ~crashed =>
        LET g == calendarData.grid
            bucket(y, m, d) ==
                IF <<y, m, d>> \in DOMAIN processedData
                THEN processedData[<<y, m, d>>]
                ELSE [count |-> 0, amount |-> 0]
        IN  /\ \A d \in RowIndices, c \in ColIndices :
                    LET cell   == g[d][c]
                        cnt(y) == bucket(y, c - 1, d).count
                        amt(y) == bucket(y, c - 1, d).amount
                    IN  cell.isCurrentMonth =>
                            /\ cell.count = SumOverSet(cnt, YearsOfData, 0)
                            /\ cell.amount = SumOverSet(amt, YearsOfData, 0)
            /\ ( /\ Len(data) = 2
                 /\ currency = "USD"
                 /\ data[1].date = <<2023, 2, 5>> /\ data[1].amount = 100 * Unit
                 /\ data[2].date = <<2024, 2, 5>> /\ data[2].amount = 50 * Unit )
               => (g[5][3].count = 2 /\ g[5][3].amount = 150 * Unit)

\* C5: a conversion that throws for one transaction does not abort the pass:
\* the other transactions are still aggregated into their buckets and the
\* failing one adds nothing to the amounts.
C5_ConversionFailureIsIsolated ==
    (\E i \in 1..Len(data) : ConversionFails(data[i], currency)) =>
        /\ ~crashed
        /\ \A j \in 1..Len(data) :
              ~ConversionFails(data[j], currency) => data[j].date \in DOMAIN processedData

\* C6: maxAmount is max(sorted[floor(n * 0.8)], 1) over the n strictly
\* positive amounts of the grid cells (after the multi-year rollup), 1 when
\* n = 0, hence >= 1.
C6_ScaleIsP80OfCellAmounts ==
    ~crashed =>
        LET g      == calendarData.grid
            sorted == SortNumeric(SelectSeq(CellAmountsFrom(g, 1),
                                            LAMBDA a : a > 0))
            n      == Len(sorted)
        IN  /\ calendarData.maxAmount >= Unit
            /\ calendarData.maxAmount =
                  (IF n = 0 THEN Unit ELSE Max(sorted[((n * 8) \div 10) + 1], Unit))

\* C7: for the scale in use and all amounts A > B > 0, the opacity for A is at
\* least the opacity for B, and both lie in (0, 1].
C7_IntensityMonotoneAndBounded ==
    LET amounts == CellAmountSet(calendarData.grid)
                      \cup {processedData[k].amount : k \in DOMAIN processedData}
        op(t, a) == getColorIntensity(t, calendarData.maxAmount, a).opacity
    IN  \A t \in ChartTypes, A \in amounts, B \in amounts :
            (A > B /\ B > 0) =>
                /\ RatioLeq(op(t, B), op(t, A))
                /\ RatioLess(<<0, 1>>, op(t, A)) /\ RatioLeq(op(t, A), <<1, 1>>)
                /\ RatioLess(<<0, 1>>, op(t, B)) /\ RatioLeq(op(t, B), <<1, 1>>)

\* C7 witness: two displayed cells with amounts A > B > 0 and a strictly
\* smaller opacity for B.
C7_Witness ==
    LET amounts == CellAmountSet(calendarData.grid)
        m       == calendarData.maxAmount
    IN  \E A \in amounts, B \in amounts :
            /\ A > B /\ B > 0
            /\ RatioLess(getColorIntensity("expense", m, B).opacity,
                         getColorIntensity("expense", m, A).opacity)

\* C8 (as stated): the colour is the marker exactly for amount 0, and for a
\* nonzero amount its opacity is min(amount / maxAmount, 1).
C8_ColourIsMinRatio ==
    LET g == calendarData.grid
        m == calendarData.maxAmount
    IN  \A t \in ChartTypes, a \in CellAmountSet(g) :
            LET colour == getColorIntensity(t, m, a)
            IN  /\ (colour = Transparent) <=> (a = 0)
                /\ a # 0 => /\ a >= m => RatioEq(colour.opacity, <<1, 1>>)
                            /\ a < m  => RatioEq(colour.opacity, <<a, m>>)

\* C8 (amended): the colour is the marker exactly for amount 0, and for a
\* nonzero amount its opacity is max(0.1, min(amount / maxAmount, 1)).
C8_ColourIsFlooredMinRatio ==
    LET g == calendarData.grid
        m == calendarData.maxAmount
    IN  \A t \in ChartTypes, a \in CellAmountSet(g) :
            LET colour == getColorIntensity(t, m, a)
            IN  /\ (colour = Transparent) <=> (a = 0)
                /\ a # 0 =>
                     /\ a >= m => RatioEq(colour.opacity, <<1, 1>>)
                     /\ (a < m /\ 10 * a >= m) => RatioEq(colour.opacity, <<a, m>>)
                     /\ 10 * a < m => RatioEq(colour.opacity, <<1, 10>>)

\* C8 witness: a displayed cell whose positive amount is below a tenth of the
\* scale maximum, drawn with opacity 0.1.
C8_Witness ==
    LET m == calendarData.maxAmount
    IN  \E a \in CellAmountSet(calendarData.grid) :
            /\ a > 0 /\ 10 * a < m
            /\ getColorIntensity("income", m, a).opacity = <<1, 10>>

\* C9: for the empty transaction list the bucket map is empty, the grid has
\* 372 cells all with count 0 and amount 0, maxAmount is 1 and no cell is
\* drawn with a colour other than the empty marker.
C9_EmptyInput ==
    data = <<>> =>
        LET g == calendarData.grid IN
        /\ DOMAIN processedData = {}
        /\ Len(g) * Len(g[1]) = 372
        /\ \A d \in DOMAIN g : \A c \in DOMAIN g[d] :
              LET cell == g[d][c]
              IN  /\ cell.count = 0
                  /\ cell.amount = 0
                  /\ \A t \in ChartTypes :
                        getColorIntensity(t, calendarData.maxAmount, cell.amount)
                            = Transparent
        /\ calendarData.maxAmount = Unit

\* C9 witness: the list is empty again after transactions were shown and the
\* currency was changed.
C9_Witness ==
    /\ data = <<>>
    /\ currency = "BTC"
    /\ pdDeps = <<0, "BTC", 0>>

\* C10: after any sequence of input changes the grid has exactly 31 rows, for
\* dayOfMonth 1..31 in order, each of exactly 12 cells, for month 0..11 in order.
C10_GridShape ==
    LET g == calendarData.grid IN
    /\ DOMAIN g = 1..31
    /\ \A d \in DOMAIN g :
          /\ DOMAIN g[d] = 1..12
          /\ \A c \in DOMAIN g[d] :
                LET cell == g[d][c]
                IN  cell.isCurrentMonth => cell.date = <<today[1], c - 1, d>>

\* C10 witness: a grid rebuilt after additions, an edit and a currency change.
C10_Witness ==
    /\ Len(data) = 2
    /\ currency = "BTC"
    /\ cdInputs.processedData = processedData
    /\ Cardinality(DOMAIN processedData) = 2
    /\ DOMAIN calendarData.grid = 1..31

\* ------------------------------------------------------------ C11 and C12
\* the calendar days next to a date, and YYYY-MM-DD of a date
CalendarDayBefore(date) ==
    IF date[3] > 1 THEN <<date[1], date[2], date[3] - 1>>
    ELSE IF date[2] > 0 THEN <<date[1], date[2] - 1, LastDayOfMonth(date[1], date[2] - 1)>>
    ELSE <<date[1] - 1, 11, 31>>

CalendarDayAfter(date) ==
    IF date[3] < LastDayOfMonth(date[1], date[2]) THEN <<date[1], date[2], date[3] + 1>>
    ELSE IF date[2] < 11 THEN <<date[1], date[2] + 1, 1>>
    ELSE <<date[1] + 1, 0, 1>>

YearMonthDay(date) ==
    PadStart(NumberToString(date[1]), 4) \o <<"-">>
        \o PadStart(NumberToString(date[2] + 1), 2) \o <<"-">>
        \o PadStart(NumberToString(date[3]), 2)

\* the cell the last click was on
ClickedCell == calendarData.grid[effects.row][effects.col]

\* C11: a click on a valid cell with count > 0 and date D emits exactly one
\* navigation request, to /incomes or /expenses by the chart's type, with
\* startDate the calendar day before D and endDate the calendar day after D,
\* both as YYYY-MM-DD.
C11_ClickNavigatesAroundDate ==
    (effects.handler = "click" /\ ClickedCell.isCurrentMonth /\ ClickedCell.count > 0)
        => effects.pushed =
              <<[targetPath |-> IF effects.type = "income" THEN "/incomes"
                                ELSE "/expenses",
                 startDate  |-> YearMonthDay(CalendarDayBefore(ClickedCell.date)),
                 endDate    |-> YearMonthDay(CalendarDayAfter(ClickedCell.date))]>>

\* C12: a click on an invalid cell or on a cell with count 0 emits no
\* navigation request and raises no error; navigation requests are emitted
\* only by clicks on valid cells with count > 0.
C12_NoNavigationWithoutData ==
    /\ effects.handler = "click" =>
          /\ (~ClickedCell.isCurrentMonth \/ ClickedCell.count = 0)
                => (effects.pushed = <<>> /\ effects.logged = 0 /\ ~crashed)
          /\ effects.pushed # <<>>
                => (ClickedCell.isCurrentMonth /\ ClickedCell.count > 0)
    /\ effects.handler # "click" => effects.pushed = <<>>

\* C12 witness: with a 29 February transaction shown under the reference year
\* 2025, a click on the invalid cell Feb 29 was ignored.
C12_Witness ==
    /\ effects.handler = "click"
    /\ effects.row = 29 /\ effects.col = 2
    /\ today[1] = 2025
    /\ <<2024, 1, 29>> \in DOMAIN processedData
    /\ ~ClickedCell.isCurrentMonth
    /\ effects.pushed = <<>>

\* ------------------------------------------------------------- C13 to C15
\* reading a written number back: the digits before the first non-digit
DigitValue(ch) == CHOOSE n \in 0..9 : Digit(n) = ch
IsDigit(ch) == \E n \in 0..9 : Digit(n) = ch

RECURSIVE ParseDigits(_, _)
ParseDigits(str, acc) ==
    IF str = <<>> \/ ~IsDigit(Head(str)) THEN acc
    ELSE ParseDigits(Tail(str), 10 * acc + DigitValue(Head(str)))

\* the hundredths a string of the form "I.FF" stands for
ParseHundredths(str) ==
    LET int == ParseDigits(str, 0)
        dot == CHOOSE i \in 1..Len(str) : str[i] = "."
    IN  100 * int + 10 * DigitValue(str[dot + 1]) + DigitValue(str[dot + 2])

Abs(x) == IF x < 0 THEN -x ELSE x

\* the row of csvDataForControls that the claims place cell (r, c) in, r and c
\* counted from 0: the header is row 1
CsvRowAt(csv, r, c) == csv[1 + (r * 12 + c) + 1]

\* the written hundredths h are the nearest ones to n / (d * Unit)
NearestHundredths(h, n, d) == 2 * Abs(h * d * Unit - 100 * n) <= d * Unit

\* the structure C13 states: 372 rows after the header, row r * 12 + c for day
\* r + 1 and month c, with the count of cell (r, c)
CsvIsGridInDayMajorOrder(csv, g) ==
    /\ Len(csv) = 1 + 372
    /\ \A r \in 0..30, c \in 0..11 :
          LET row  == CsvRowAt(csv, r, c)
              cell == g[r + 1][c + 1]
          IN  /\ ParseDigits(row[1], 0) = r + 1
              /\ row[2] = <<monthNames[c + 1]>>
              /\ ParseDigits(row[4], 0) = cell.count

Classification(count) ==
    CASE count = 0 -> <<"None">>
      [] count = 1 -> <<"Single">>
      [] count \in 2..3 -> <<"Low">>
      [] count \in 4..6 -> <<"Moderate">>
      [] count >= 7 -> <<"High">>

\* C14 (as stated): in every CSV row the activity classification is the one
\* of the cell's count (None 0, Single 1, Low 2-3, Moderate 4-6, High 7+) and
\* no other value appears in that column.
C14_ActivityIsClassOfCount ==
    ~crashed =>
        LET csv == csvDataForControls
            g   == calendarData.grid
        IN  \A r \in 0..30, c \in 0..11 :
                CsvRowAt(csv, r, c)[7] = Classification(g[r + 1][c + 1].count)

\* C14 (amended): in every row of a valid day the classification is the one
\* of the cell's count; the rows of invalid days carry N/A.
C14_ActivityIsClassOfCountOrNA ==
    ~crashed =>
        LET csv == csvDataForControls
            g   == calendarData.grid
        IN  \A r \in 0..30, c \in 0..11 :
                LET cell == g[r + 1][c + 1]
                IN  CsvRowAt(csv, r, c)[7] =
                        (IF cell.isCurrentMonth THEN Classification(cell.count)
                         ELSE <<"N/A">>)

\* C14 witness: a day with 7 transactions is written High, and Feb 30 N/A.
C14_Witness ==
    /\ ~crashed
    /\ calendarData.grid[5][3].count = 7
    /\ CsvRowAt(csvDataForControls, 4, 2)[7] = <<"High">>
    /\ CsvRowAt(csvDataForControls, 29, 1)[7] = <<"N/A">>

\* C15: in every CSV row the average written is amount / count of the cell
\* (to two decimals) when count > 0 and 0 when count = 0, so that count times
\* the average is the amount, and the amount written, up to the rounding of
\* the two numbers to two decimals.
C15_AverageIsAmountOverCount ==
    ~crashed =>
        LET csv == csvDataForControls
            g   == calendarData.grid
        IN  \A r \in 0..30, c \in 0..11 :
                LET row     == CsvRowAt(csv, r, c)
                    cell    == g[r + 1][c + 1]
                    average == ParseHundredths(row[6])
                    amount  == ParseHundredths(row[5])
                IN  /\ cell.count = 0 => average = 0
                    /\ cell.count > 0 =>
                          /\ NearestHundredths(average, cell.amount, cell.count)
                          /\ 2 * Abs(cell.count * average - amount) <= cell.count + 1

\* C15 witness: a day of several transactions whose average is no whole number
\* of hundredths.
C15_Witness ==
    /\ ~crashed
    /\ calendarData.grid[5][3].count >= 2
    /\ (100 * calendarData.grid[5][3].amount)
            % (calendarData.grid[5][3].count * Unit) # 0
    /\ ParseHundredths(CsvRowAt(csvDataForControls, 4, 2)[6]) > 0

\* ------------------------------------------------------------- C16 to C19
\* an SVG export was just performed by customDownloadSVG
SvgExported == effects.handler = "svg" /\ effects.downloads = <<"svg">>

\* C16: the CSV rows and the vector document of an export equal those of
\* running aggregate -> grid -> scale -> export afresh on the same inputs
\* (transactions, target currency, current date, chart size).
C16_ExportIsFunctionOfInputs ==
    (SvgExported /\ ~crashed) =>
        LET pd == processedDataOf(data, currency).map
            cd == calendarDataOf(pd, displayYearsOf(data), today)
        IN  /\ csvDataForControls = csvDataForControlsOf(cd)
            /\ \A type \in ChartTypes, title \in Titles, text \in TimePeriodTexts :
                  svgDocument(type, title, text, effects.rect)
                      = svgDocumentOf(type, chartTitleOf(type, title, text, pd),
                                      cd, pd, currency, effects.rect)

\* C17: when a PNG export has failed (the module did not load, the rasterizer
\* rejected, or no bitmap was produced), the failure was caught and logged,
\* the SVG export was performed exactly once and nothing else was downloaded.
C17_PngFailureFallsBackToSvg ==
    (effects.handler = "png" /\ pngPc = "idle"
        /\ effects.failure \in {"import", "rejects", "noBitmap"})
        => (effects.logged = 1 /\ effects.downloads = <<"svg">>)

\* the transaction lists the chart can be given
RECURSIVE ListsUpTo(_)
ListsUpTo(n) ==
    IF n = 0 THEN {<<>>}
    ELSE LET shorter == ListsUpTo(n - 1)
         IN  shorter \cup {Append(l, t) : l \in shorter, t \in GoodTransactions}

\* C18: at an export the cell counts and amounts, the scale of the fills, the
\* legend values and the title count are those of one transaction list and one
\* target currency.
C18_ExportIsOneSnapshot ==
    (SvgExported /\ ~crashed) =>
        \E c \in Currencies, S \in ListsUpTo(MaxTx) :
            LET pd == processedDataOf(S, c).map
            IN  /\ totalTransactionsOf(processedData) = Len(S)
                /\ legend = legendOf(pd, c)
                /\ calendarData.maxAmount = maxAmountOf(pd)
                /\ calendarData.grid = BuildGrid(pd, displayYearsOf(S), today)

\* C19: the 80th-percentile amount of the legend, in the interactive view and
\* in the vector document, is the maxAmount getColorIntensity divides by.
C19_LegendShowsScaleMaximum ==
    ~crashed =>
        /\ legend.maxScaleAmount = calendarData.maxAmount
        /\ SvgExported =>
              \A type \in ChartTypes :
                  svgDocument(type, NoTitle, <<"All Time">>, effects.rect).more
                      = <<"More [", currency, " ">>
                            \o toLocaleString(calendarData.maxAmount) \o <<"]">>

\* ------------------------------------------------------------------- C20
\* the title holds the label, and the count n in "<bullet> n transaction(s)"
EmbedsLabel(title, label) ==
    \E i \in 1..Len(title) : SubSeq(title, i, i + Len(label) - 1) = label

EmbedsCount(title, n) ==
    \E i \in 1..Len(title) :
        /\ title[i] = " &bull; "
        /\ SubSeq(title, i + 1, Len(title))
              = NumberToString(n) \o <<" transaction">>
                    \o (IF n # 1 THEN <<"s">> ELSE <<>>)

EmbedsNoCount(title) == \A i \in 1..Len(title) : title[i] # " &bull; "

\* C20 (as stated): without a custom title the title embeds the date-range
\* label and the total transaction count, which is the number of input
\* transactions, for every transaction set.
C20_TitleEmbedsLabelAndCount ==
    ~crashed =>
        \A type \in ChartTypes, text \in TimePeriodTexts :
            LET title == chartTitle(type, NoTitle, text)
            IN  EmbedsLabel(title, text) /\ EmbedsCount(title, Len(data))

\* C20 (amended): the count is embedded only when there is a transaction; the
\* title of the empty set holds the label and no count.
C20_TitleEmbedsLabelAndPositiveCount ==
    ~crashed =>
        \A type \in ChartTypes, text \in TimePeriodTexts :
            LET title == chartTitle(type, NoTitle, text)
            IN  /\ EmbedsLabel(title, text)
                /\ Len(data) > 0 => EmbedsCount(title, Len(data))
                /\ Len(data) = 0 => EmbedsNoCount(title)

\* C20 witness: two transactions of one day, after an edit that no memo
\* noticed, under the title "... 2 transactions".
C20_Witness ==
    /\ ~crashed
    /\ Len(data) = 2
    /\ Cardinality(DOMAIN processedData) = 1
    /\ processedData # processedDataOf(data, currency).map
    /\ EmbedsCount(chartTitle("expense", NoTitle, <<"All Time">>), 2)

\* ------------------------------------------------------------------- C21
\* the indices of the transactions of d dated k
IndicesOn(d, k) == {i \in 1..Len(d) : d[i].date = k}

\* C21: the aggregation of the transactions (all convertible) has exactly one
\* bucket per distinct date of a transaction, its count the number of
\* transactions of that date, equal ids included, and its amount the sum of
\* their converted amounts; other dates have no bucket.
C21_OneBucketPerDate ==
    LET agg == processedDataOf(data, currency)
        converted(i) == convertForDisplaySync(data[i].amount, data[i].currency,
                                              currency).value
    IN  ~agg.threw =>
            /\ DOMAIN agg.map = {data[i].date : i \in 1..Len(data)}
            /\ \A k \in DOMAIN agg.map :
                  /\ agg.map[k].count = Cardinality(IndicesOn(data, k))
                  /\ agg.map[k].amount = SumOverSet(converted, IndicesOn(data, k), 0)

\* C21 witness: two transactions with the same id, date and amount were
\* aggregated into one bucket of count 2, shown in BTC.
C21_Witness ==
    /\ ~crashed
    /\ Len(data) = 2
    /\ data[1] = data[2]
    /\ currency = "BTC"
    /\ processedData = processedDataOf(data, currency).map
    /\ processedData[data[1].date].count = 2


\* ------------------------------------------------------------------- C22
\* the cells of the displayed grid that are marked as today
TodayCells ==
    {p \in CellPositions : calendarData.grid[p[1]][p[2]].isToday}

\* C22: in the displayed grid a valid cell (d, m) is marked as today exactly
\* when some year of the current transactions makes (year, m, d) the current
\* date, an invalid cell is never marked, and at most one cell is marked.
C22_TodayIffYearOfData ==
    ~crashed =>
        /\ \A p \in CellPositions :
              LET cell == calendarData.grid[p[1]][p[2]]
              IN  IF cell.isCurrentMonth
                  THEN cell.isToday <=>
                          \E y \in YearsOfData : NewDate(y, p[2] - 1, p[1]) = today
                  ELSE ~cell.isToday
        /\ Cardinality(TodayCells) <= 1

\* The same statement over the year list the grid was built from: it holds,
\* so the marking differs from C22 only where that list is out of date.
C22_TodayIffYearOfGridInput ==
    LET years == {cdInputs.displayYears[i] : i \in 1..Len(cdInputs.displayYears)}
    IN  /\ \A p \in CellPositions :
              LET cell == calendarData.grid[p[1]][p[2]]
              IN  IF cell.isCurrentMonth
                  THEN cell.isToday <=>
                          \E y \in years : NewDate(y, p[2] - 1, p[1]) = today
                  ELSE ~cell.isToday
        /\ Cardinality(TodayCells) <= 1


\* ------------------------------------------------------------------- C23
\* the amounts a cell of the chart can be coloured for: those of the grid
\* cells and those of the buckets the scale was computed from
ColouredAmounts ==
    CellAmountSet(calendarData.grid)
        \cup {cdInputs.processedData[k].amount : k \in DOMAIN cdInputs.processedData}

\* C23: with the scale maximum in use, every positive amount at or above it is
\* drawn with opacity exactly 1 and every positive amount below it with an
\* opacity strictly below 1.
C23_FullIntensityFromScaleMaximum ==
    LET m == calendarData.maxAmount
    IN  \A t \in ChartTypes, a \in ColouredAmounts :
            a > 0 =>
                LET opacity == getColorIntensity(t, m, a).opacity
                IN  /\ a >= m => RatioEq(opacity, <<1, 1>>)
                    /\ a < m  => RatioLess(opacity, <<1, 1>>)

\* C23 witness: a displayed cell whose amount lies above the scale maximum,
\* drawn at opacity 1, next to a positive amount below the maximum.
C23_Witness ==
    LET m == calendarData.maxAmount
    IN  /\ ~crashed
        /\ \E a \in CellAmountSet(calendarData.grid) :
              a > m /\ RatioEq(getColorIntensity("income", m, a).opacity, <<1, 1>>)
        /\ \E b \in ColouredAmounts :
              /\ b > 0 /\ b < m
              /\ RatioLess(getColorIntensity("income", m, b).opacity, <<1, 1>>)

\* ------------------------------------------------------------------- C24
Orders(n) ==
    {p \in [1..n -> 1..n] : \A i, j \in 1..n : p[i] = p[j] => i = j}
Permuted(seq, p) == [i \in 1..Len(seq) |-> seq[p[i]]]

bucketsOfNumbers(d) == AggregateNumbersFrom(d, currency, 1, EmptyNumberMap).map

\* count and amount of the valid cell (dayOfMonth, month) rolled up in the
\* iteration order dy of the years
cellOfNumbers(pd, dy, dayOfMonth, month) ==
    AcrossYearsNumbers(pd, dy, dayOfMonth, month, 1,
        [totalCount |-> 0, totalAmount |-> DoubleZero])

DayMonthsOfData == {<<data[i].date[3], data[i].date[2]>> : i \in 1..Len(data)}

\* C24: for every permutation of the transactions and every iteration order
\* of the year set, every bucket and every grid cell has the same count and
\* the same amount as for the given order.
C24_OrderIndependent ==
    LET years == displayYearsOf(data)
        pd    == bucketsOfNumbers(data)
    IN  \A p \in Orders(Len(data)) :
            LET pdP == bucketsOfNumbers(Permuted(data, p))
            IN  /\ pdP = pd
                /\ \A q \in Orders(Len(years)), dm \in DayMonthsOfData :
                      cellOfNumbers(pdP, Permuted(years, q), dm[1], dm[2])
                          = cellOfNumbers(pd, years, dm[1], dm[2])

\* The counts alone are the same in every order.
C24_CountsOrderIndependent ==
    LET years == displayYearsOf(data)
        pd    == bucketsOfNumbers(data)
    IN  \A p \in Orders(Len(data)) :
            LET pdP == bucketsOfNumbers(Permuted(data, p))
            IN  /\ DOMAIN pdP = DOMAIN pd
                /\ \A k \in DOMAIN pd : pdP[k].count = pd[k].count
                /\ \A q \in Orders(Len(years)), dm \in DayMonthsOfData :
                      cellOfNumbers(pdP, Permuted(years, q), dm[1], dm[2]).totalCount
                          = cellOfNumbers(pd, years, dm[1], dm[2]).totalCount

\* ------------------------------------------------------------------- C25
NeutralFill == Hex("#f9fafb")

\* C25: the vector document of an SVG export draws all 372 cells of the grid;
\* a valid cell is filled with the colour of its amount (the neutral fill for
\* the empty marker) and outlined as today when it is today's cell; an
\* invalid cell has the neutral fill at opacity 0.3, no count text and no
\* today outline.
C25_SvgCellsFollowGrid ==
    (SvgExported /\ ~crashed) =>
        LET cd == calendarData
            g  == cd.grid
            m  == cd.maxAmount
        IN  \A type \in ChartTypes :
                LET cells == svgDocumentOf(type, NoTitle, cd, processedData, currency,
                                           effects.rect).cells
                IN  /\ DOMAIN cells = RowIndices
                    /\ \A r \in RowIndices :
                          /\ DOMAIN cells[r] = ColIndices
                          /\ \A c \in ColIndices :
                                LET cell   == g[r][c]
                                    drawn  == cells[r][c]
                                    colour == getColorIntensity(type, m, cell.amount)
                                IN  IF cell.isCurrentMonth
                                    THEN /\ drawn.fill = (IF colour = Transparent
                                                          THEN NeutralFill ELSE colour)
                                         /\ drawn.opacity = ""
                                         /\ cell.isToday =>
                                               (drawn.stroke = "#3b82f6"
                                                    /\ drawn.strokeWidth = 2)
                                         /\ ~cell.isToday =>
                                               (drawn.stroke = "#e5e7eb"
                                                    /\ drawn.strokeWidth = 1)
                                    ELSE /\ drawn.fill = NeutralFill
                                         /\ drawn.opacity = "0.3"
                                         /\ drawn.countText = <<>>
                                         /\ drawn.stroke = "#e5e7eb"
                                         /\ drawn.strokeWidth = 1

\* C25 witness: an SVG export of a chart whose today's cell (5, Mar) holds an
\* amount and is drawn coloured with the today outline, next to the invalid
\* cell (30, Feb) drawn neutral at opacity 0.3.
C25_Witness ==
    /\ SvgExported /\ ~crashed
    /\ calendarData.grid[5][3].isToday
    /\ calendarData.grid[5][3].amount > 0
    /\ LET doc == svgDocument("expense", NoTitle, <<"All Time">>, effects.rect)
       IN  /\ doc.cells[5][3].stroke = "#3b82f6"
           /\ doc.cells[5][3].fill.css = "rgba"
           /\ doc.cells[30][2].opacity = "0.3"

\* ------------------------------------------------------------------- C26
\* C26 (as stated): every one of the 372 cells has as date the reference year,
\* the month of its column and the day of its row.
C26_CellDateIsPosition ==
    LET g == calendarData.grid
    IN  \A r \in RowIndices, c \in ColIndices :
            g[r][c].date = <<today[1], c - 1, r>>

\* C26 (amended): a valid cell has as date the reference year, the month of
\* its column and the day of its row; an invalid cell, whose day lies past the
\* end of the month, has the date that many days into the following month
\* (of the following year after December).
C26_CellDateIsPositionOrRollover ==
    LET g == calendarData.grid
        y == today[1]
    IN  \A r \in RowIndices, c \in ColIndices :
            LET last == LastDayOfMonth(y, c - 1)
            IN  /\ g[r][c].isCurrentMonth <=> r <= last
                /\ r <= last => g[r][c].date = <<y, c - 1, r>>
                /\ r > last =>
                      g[r][c].date = (IF c = 12 THEN <<y + 1, 0, r - last>>
                                      ELSE <<y, c, r - last>>)

\* C26 witness: the grid of the leap reference year 2024, rebuilt for two
\* transactions: cell (29, Feb) is dated 29 February, cell (30, Feb) 1 March
\* and cell (31, Apr) 1 May.
C26_Witness ==
    /\ ~crashed /\ Len(data) = 2 /\ today[1] = 2024
    /\ cdInputs.processedData = processedDataOf(data, currency).map
    /\ calendarData.grid[29][2].date = <<2024, 1, 29>>
    /\ calendarData.grid[30][2].date = <<2024, 2, 1>>
    /\ calendarData.grid[31][4].date = <<2024, 4, 1>>

\* ------------------------------------------------------------------- C27
\* C27: the chart element is attached only while the chart is expanded; a PNG
\* or SVG export called while it is collapsed downloads nothing, logs no
\* error and leaves nothing pending; an SVG export called while it is
\* expanded downloads exactly one SVG document.
C27_ExportsNeedExpandedChart ==
    /\ [](chartRefCurrent => isExpanded)
    /\ [][/\ (DownloadSVG /\ ~isExpanded) =>
                 /\ effects'.downloads = <<>>
                 /\ effects'.logged = 0
                 /\ pngPc' = "idle" /\ crashed' = crashed
          /\ (DownloadPNG /\ ~isExpanded) =>
                 /\ effects'.downloads = <<>>
                 /\ effects'.logged = 0
                 /\ pngPc' = "idle" /\ crashed' = crashed
          /\ (DownloadSVG /\ isExpanded) =>
                 /\ effects'.downloads = <<"svg">>
                 /\ effects'.logged = 0]_vars

\* C27 witness: a PNG export was called on the collapsed chart of a
\* transaction and came back at once with nothing downloaded or logged.
C27_Witness ==
    /\ ~crashed /\ data # <<>> /\ ~isExpanded
    /\ effects.handler = "png" /\ pngPc = "idle"
    /\ effects.failure = "" /\ effects.logged = 0
    /\ effects.downloads = <<>>

\* ------------------------------------------------------------ C28 and C29
\* the list shows the effect of the fulfilled call c
Reflected(list, c) ==
    CASE c.kind = "add"    -> \E k \in DOMAIN list : list[k] = c.value
      [] c.kind = "edit"   -> \A k \in DOMAIN list : list[k].id = c.id => list[k] = c.value
      [] c.kind = "delete" -> \A k \in DOMAIN list : list[k].id # c.id

\* the account a fulfilled call is about
TargetId(c) == c.value.id

\* C28: when a mutation was started before an earlier-started mutation on
\* another account had returned (its handler's list does not show the other's
\* effect) and both succeeded, the accounts list shows the effect of both.
C28_ConcurrentMutationsBothReflected ==
    loadPromise \notin {"error", "rejects"} =>
        \A i, j \in DOMAIN calls :
            (/\ i < j
             /\ calls[i].state = "fulfilled" /\ calls[j].state = "fulfilled"
             /\ TargetId(calls[i]) # TargetId(calls[j])
             /\ ~Reflected(calls[j].accounts, calls[i]))
                => (Reflected(accounts, calls[i]) /\ Reflected(accounts, calls[j]))

\* The same for mutations that did not overlap: the later one started from a
\* list showing the earlier one's effect.
C28_SequentialMutationsBothReflected ==
    loadPromise \notin {"error", "rejects"} =>
        \A i, j \in DOMAIN calls :
            (/\ i < j
             /\ calls[i].state = "fulfilled" /\ calls[j].state = "fulfilled"
             /\ TargetId(calls[i]) # TargetId(calls[j])
             /\ Reflected(calls[j].accounts, calls[i]))
                => (Reflected(accounts, calls[i]) /\ Reflected(accounts, calls[j]))

\* call i has just come back failed / succeeded
FailsNow(i) == calls[i].state = "pending" /\ calls'[i].state = "rejected"
SucceedsNow(i) == calls[i].state = "pending" /\ calls'[i].state = "fulfilled"

\* C29: a step in which the server call of an add, edit or delete fails leaves
\* the accounts list, accountToEdit, accountToDelete and the open state of
\* the three modals unchanged and triggers no balance refresh; a handler
\* changes the list, closes its modal and triggers the refresh only in the
\* step in which its call succeeds.
C29_FailureChangesNothing ==
    [][/\ (\E i \in DOMAIN calls : FailsNow(i)) =>
              /\ UNCHANGED <<accounts, accountToEdit, accountToDelete>>
              /\ UNCHANGED <<isAddModalOpen, isEditModalOpen, isDeleteModalOpen>>
              /\ refreshes' = refreshes
       /\ refreshes' # refreshes =>
              (refreshes' = refreshes + 1 /\ \E i \in DOMAIN calls : SucceedsNow(i))
       /\ (accounts' # accounts /\ loadPromise' = loadPromise) =>
              \E i \in DOMAIN calls : SucceedsNow(i)
       /\ (isAddModalOpen /\ ~isAddModalOpen') =>
              (CloseAddModal \/ \E i \in DOMAIN calls :
                                    SucceedsNow(i) /\ calls[i].kind = "add")
       /\ (isEditModalOpen /\ ~isEditModalOpen') =>
              (CloseEditModal \/ \E i \in DOMAIN calls :
                                     SucceedsNow(i) /\ calls[i].kind = "edit")
       /\ (isDeleteModalOpen /\ ~isDeleteModalOpen') =>
              (CloseDeleteModal \/ \E i \in DOMAIN calls :
                                       SucceedsNow(i) /\ calls[i].kind = "delete")]_vars

\* C29 witness: the call of an edit came back failed; the edit modal is still
\* open on its account, the list is the loaded one and nothing was refreshed.
C29_Witness ==
    /\ \E i \in DOMAIN calls : calls[i].kind = "edit" /\ calls[i].state = "rejected"
    /\ \A i \in DOMAIN calls : calls[i].state = "rejected"
    /\ isEditModalOpen /\ accountToEdit # NoAccount
    /\ accounts = RowsAsList(accountRows) /\ accounts # <<>>
    /\ refreshes = 0

\* ---------------------------------------------------------------- C30
\* every validation for the form's type passes
C30_PassesValidation(fd) ==
    LET price    == parseFloat(fd.purchasePrice)
        Positive(str) == str # <<>> /\ ~NumLeq(parseFloat(str), Num(0))
        NotNegative(str) == str # <<>> /\ ~NumLess(parseFloat(str), Num(0))
    IN  /\ \E i \in DOMAIN fd.name : fd.name[i] # " "
        /\ CASE fd.type = "FIXED_DEPOSIT" ->
                    /\ Positive(fd.purchasePrice)
                    /\ NotNegative(fd.interestRate)
                    /\ fd.maturityDate # <<>>
                    /\ ~DateNotAfter(fd.maturityDate, fd.purchaseDate)
             [] fd.type \in {"PROVIDENT_FUNDS", "SAFE_KEEPINGS"} ->
                    Positive(fd.purchasePrice)
             [] OTHER ->
                    /\ Positive(fd.quantity)
                    /\ Positive(fd.purchasePrice)
                    /\ NotNegative(fd.currentPrice)
        /\ fd.accountId # <<>> \/ fd.type \in {"PROVIDENT_FUNDS", "SAFE_KEEPINGS"}

\* the total of the investment is above the known balance of the selected
\* account
C30_ExceedsKnownBalance(fd, accs) ==
    \E i \in DOMAIN accs :
        /\ fd.accountId # <<>>
        /\ Num(accs[i].id) = parseFloat(fd.accountId)
        /\ accs[i].balance # <<>>
        /\ LET total == IF fd.type \in {"FIXED_DEPOSIT", "PROVIDENT_FUNDS",
                                        "SAFE_KEEPINGS"}
                        THEN parseFloat(fd.purchasePrice).v
                        ELSE parseFloat(fd.quantity).v * parseFloat(fd.purchasePrice).v
           IN  total > accs[i].balance[1]

\* C30: a submit calls onAdd at most once, and only when no call is in
\* flight, every validation for the form's type passes and the total is not
\* above the known balance of the selected account; when a submit has ended
\* (validation failure, onAdd rejected or returned) loading is false; the
\* form's values change only by an input change or by the reset after onAdd
\* returned, a failed submit leaves them as they are.
C30_OnAddOnlyForValidForm ==
    /\ [](onAddPromise = "none" => ~modalLoading)
    /\ [][/\ onAddCount' \in {onAddCount, onAddCount + 1}
          /\ onAddCount' # onAddCount =>
                 /\ handleSubmit
                 /\ onAddPromise = "none" /\ onAddPromise' = "pending"
                 /\ C30_PassesValidation(formData)
                 /\ ~C30_ExceedsKnownBalance(formData, modalAccounts)
          /\ (handleSubmit /\ onAddCount' = onAddCount) =>
                 /\ ~modalLoading' /\ error' # NoError
                 /\ formData' = formData /\ onAddPromise' = "none"
          /\ OnAddRejects => (~modalLoading' /\ formData' = formData)
          /\ OnAddResolves => (~modalLoading' /\ formData' = EmptyForm(today))
          /\ formData' # formData => (InputChanges \/ OnAddResolves)]_vars

\* C30 witness: handleSubmit has called onAdd, once, for a valid form whose
\* account has a known balance that the total does not exceed; the call is
\* in flight and loading is true.
C30_Witness ==
    /\ onAddPromise = "pending" /\ onAddCount = 1 /\ modalLoading
    /\ C30_PassesValidation(formData)
    /\ formData.type = "STOCKS" /\ formData.accountId = <<"1">>
    /\ formData.quantity = <<"2">> /\ formData.purchasePrice = <<"5", "0">>
    /\ modalAccounts = UserAccounts
    /\ ~C30_ExceedsKnownBalance(formData, modalAccounts)

\* the message of the balance check is never shown: the submit button is
\* disabled for the forms the check rejects
C30_BalanceCheckNotReached == error # "Insufficient balance"

====
